---- MODULE Spec2Model ----
(***************************************************************************)
(* Session lock of tmux-yule-log: the credential file, the lock-state      *)
(* ledger, the tmux socket permission, the secure input buffer and the     *)
(* lock-mode render loop, as one process at a time runs one command of     *)
(* the CLI (lock, lock status, lock set-password, run).                    *)
(*                                                                         *)
(* Strings that the code parses are sequences of one-character strings.    *)
(* Passwords and buffers are sequences of bytes (0..255).  A file is a     *)
(* record with an `exists` flag and its content.                           *)
(***************************************************************************)
EXTENDS Integers, Sequences, FiniteSets, TLC

\* ---- Bounds of the model

\* longest input buffer (bytes) the key handlers are let to build
MaxBuf == 2
\* number of Lock() calls (each reads a later time.Now())
MaxClock == 2

\* ---- Program constants

argon2Time == 2
argon2Memory == 19456
argon2Threads == 1
argon2KeyLen == 32
saltLen == 16
\* argon2.Version
argon2Version == 19
\* capacity of screensaver.events
chanCap == 10
\* flame of the screensaver (main.go)
defaultHeatPower == 75
heatSourceDivisor == 6
minHeat == 10
maxHeat == 85
minSources == 1

\* ---- Small input sets

\* permission bits a tmux socket is created with (0700)
InitModes == {448}
\* the random salts rand.Read can return
Salt(k) == [i \in 1..saltLen |-> k]
Salts == {Salt(1)}
\* runes a KeyRune event carries
Runes == {97}
\* screen.Size() results
Sizes == {<<80, 24>>, <<0, 24>>}
\* the path of the one socket that exists, and a path where nothing exists
SockPath == <<"s">>
NoSuchPath == <<"x">>
\* values of the TMUX environment variable: unset, empty, malformed, valid
Unset == [set |-> FALSE, val |-> <<>>]
EnvOf(s) == [set |-> TRUE, val |-> s]
TmuxEnvs ==
    { Unset,
      EnvOf(<<>>),
      EnvOf(<<",", "1">>),
      EnvOf(<<"s", ",", "1", ",", "0">>),
      EnvOf(<<"x", ",", "1">>) }

VARIABLES
    passwd,        \* the credential file ($CONFIG/passwd)
    ledger,        \* the lock-state file ($RUNTIME/lock.state)
    sockMode,      \* permission bits of the tmux socket at SockPath
    now,           \* the clock time.Now() reads
    pc,            \* position of the running process ("idle": none runs)
    cmd,           \* command of the running (or last) process
    tmuxEnv,       \* TMUX in the environment of the process
    socketProtect, \* lockConfig.SocketProtect
    mode,          \* screensaverConfig.mode
    socketPath,    \* execLock: socketPath
    originalPerm,  \* execLock: originalPerm
    defers,        \* stack of deferred calls of the process
    size,          \* screensaver.width, screensaver.height
    inputBuffer,   \* screensaver.inputBuffer: backing array and length
    attempt,       \* bytes left in the snapshot slice of the last tryUnlock
    retErr,        \* the error the command returns (main prints it)
    stdout,        \* what the command printed
    calls,         \* lock-package calls of the process and their results
    unlocked,      \* tryUnlock has returned true in this process
    startMode,     \* the socket's mode when the process started
    killed,        \* the last process was ended by a signal while Locked
                   \* with the socket restricted
    events,        \* screensaver.events: the events in the channel, oldest first
    polled,        \* the events screen.PollEvent has returned, in order
    poller,        \* the pollEvents goroutine: its position and the event it holds
    visualState,   \* screensaver.visualState: <<>> for nil, <<vs>> for a VisualState
    idle           \* the idle watcher: its position, cfg.Timeout, waitingForActivity

vars == <<passwd, ledger, sockMode, now, pc, cmd, tmuxEnv, socketProtect, mode,
          socketPath, originalPerm, defers, size, inputBuffer, attempt, retErr,
          stdout, calls, unlocked, startMode, killed, events, polled, poller,
          visualState, idle>>

\* ---- Modes (main.go)

ModeNormal == "ModeNormal"
ModePlayground == "ModePlayground"
ModeLock == "ModeLock"
Modes == {ModeNormal, ModePlayground, ModeLock}

\* ---- Errors

Nil == <<>>
Err(e) == <<e>>
Wrap(msg, e) == <<msg>> \o e

\* ---- internal/lock socket guard (socket.go)

ErrNoTmuxSocket == Err("TMUX environment variable not set")
ErrInvalidTmuxSocket == Err("TMUX environment variable malformed")
ErrSocketNotFound == Err("tmux socket not found")

\* os.Getenv: an unset variable reads as the empty string
Getenv(env) == IF env.set THEN env.val ELSE <<>>

\* index of the first occurrence of sep in s from position i on, 0 when there
\* is none
IndexFrom(s, sep, i) ==
    LET at == {k \in i..Len(s) : s[k] = sep}
    IN  IF at = {} THEN 0 ELSE CHOOSE k \in at : \A j \in at : k <= j

\* strings.Split(s, sep) for a one-character separator
RECURSIVE Split(_, _)
Split(s, sep) ==
    LET i == IndexFrom(s, sep, 1)
    IN  IF i = 0 THEN <<s>>
        ELSE <<SubSeq(s, 1, i - 1)>> \o Split(SubSeq(s, i + 1, Len(s)), sep)

\* GetTmuxSocketPath without the check of the first field
GetTmuxSocketPath_NoFieldCheck(env) ==
    LET tmux == Getenv(env)
    IN  IF tmux = <<>> THEN [path |-> <<>>, err |-> ErrNoTmuxSocket]
        ELSE [path |-> Split(tmux, ",")[1], err |-> Nil]

GetTmuxSocketPath(env) ==
    LET tmux == Getenv(env)
        parts == Split(tmux, ",")
    IN  IF tmux = <<>> THEN [path |-> <<>>, err |-> ErrNoTmuxSocket]
        ELSE IF Len(parts) < 1 \/ parts[1] = <<>>
             THEN [path |-> <<>>, err |-> ErrInvalidTmuxSocket]
        ELSE [path |-> parts[1], err |-> Nil]

\* FileMode.Perm(): the permission bits of a mode
Perm(m) == m % 512

\* os.Stat / os.Chmod find a file only at SockPath
FileExists(path) == path = SockPath

\* io: the outcome the operating system gives the stat ("ok", "stat")
GetSocketPermissions(path, m, io) ==
    IF ~FileExists(path) THEN [perm |-> 0, err |-> ErrSocketNotFound]
    ELSE IF io = "stat" THEN [perm |-> 0, err |-> Wrap("stat socket", Err("EIO"))]
    ELSE [perm |-> Perm(m), err |-> Nil]

\* RestrictSocket that reads the permission after the chmod
RestrictSocket_StatAfterChmod(path, m, io) ==
    IF ~FileExists(path) \/ io = "chmod"
    THEN [perm |-> 0,
          err |-> Wrap("restricting socket permissions", Err("EPERM")),
          mode |-> m]
    ELSE LET got == GetSocketPermissions(path, 0, io)
         IN  [perm |-> got.perm, err |-> got.err, mode |-> 0]

\* io: "ok", "stat" (stat fails) or "chmod" (chmod fails); m: the socket's mode.
\* Result: the returned permission and error, and the socket's mode afterwards.
RestrictSocket(path, m, io) ==
    LET got == GetSocketPermissions(path, m, io)
    IN  IF got.err # Nil THEN [perm |-> 0, err |-> got.err, mode |-> m]
        ELSE IF io = "chmod"
             THEN [perm |-> 0,
                   err |-> Wrap("restricting socket permissions", Err("EPERM")),
                   mode |-> m]
        ELSE [perm |-> got.perm, err |-> Nil, mode |-> 0]

\* io: "ok" or "chmod" (chmod fails)
RestoreSocket(path, perm, m, io) ==
    IF ~FileExists(path) \/ io = "chmod"
    THEN [err |-> Wrap("restoring socket permissions", Err("EPERM")), mode |-> m]
    ELSE [err |-> Nil, mode |-> perm]

\* ---- internal/lock lock state (state.go)

ErrNotLocked == Err("session is not locked")

\* a JSON object of the state file: the keys present and their values
\* (a key that is absent holds the zero value here)
EmptyObj ==
    [present |-> {}, locked |-> FALSE, locked_at |-> 0,
     socket_path |-> <<>>, socket_perm |-> 0]

\* json.MarshalIndent of a State: omitempty drops an empty path and a zero mode
Marshal(state) ==
    [present |-> {"locked", "locked_at"}
                   \cup (IF state.SocketPath # <<>> THEN {"socket_path"} ELSE {})
                   \cup (IF state.SocketPerm # 0 THEN {"socket_perm"} ELSE {}),
     locked |-> state.Locked,
     locked_at |-> state.LockedAt,
     socket_path |-> state.SocketPath,
     socket_perm |-> state.SocketPerm]

\* json.Unmarshal into a zero State: a key that is absent leaves the zero value
Unmarshal(obj) ==
    [Locked |-> IF "locked" \in obj.present THEN obj.locked ELSE FALSE,
     LockedAt |-> IF "locked_at" \in obj.present THEN obj.locked_at ELSE 0,
     SocketPath |-> IF "socket_path" \in obj.present THEN obj.socket_path ELSE <<>>,
     SocketPerm |-> IF "socket_perm" \in obj.present THEN obj.socket_perm ELSE 0]

ZeroState == Unmarshal(EmptyObj)

\* the state file: absent, holding a JSON object, or cut short (no valid JSON)
NoLedger == [exists |-> FALSE, parses |-> FALSE, obj |-> EmptyObj]
TruncatedLedger == [exists |-> TRUE, parses |-> FALSE, obj |-> EmptyObj]
LedgerOf(obj) == [exists |-> TRUE, parses |-> TRUE, obj |-> obj]

\* io: "ok", "path" (xdg.LockStateFile fails), "open" (os.WriteFile cannot open
\* the file) or "write" (os.WriteFile has truncated the file and the write fails).
\* Result: the error and the file afterwards.
saveState(state, file, io) ==
    IF io = "path"
    THEN [err |-> Wrap("getting lock state file path", Err("EACCES")), file |-> file]
    ELSE IF io = "open"
    THEN [err |-> Wrap("writing lock state file", Err("EACCES")), file |-> file]
    ELSE IF io = "write"
    THEN [err |-> Wrap("writing lock state file", Err("ENOSPC")),
          file |-> TruncatedLedger]
    ELSE [err |-> Nil, file |-> LedgerOf(Marshal(state))]

Lock(path, perm, t, file, io) ==
    saveState([Locked |-> TRUE, LockedAt |-> t, SocketPath |-> path,
               SocketPerm |-> perm], file, io)

\* Unlock that reports a state file that does not exist as an error
Unlock_NotExistIsError(file, io) ==
    IF io = "path"
    THEN [err |-> Wrap("getting lock state file path", Err("EACCES")), file |-> file]
    ELSE IF ~file.exists
    THEN [err |-> Wrap("removing lock state file", Err("ENOENT")), file |-> file]
    ELSE IF io = "remove"
    THEN [err |-> Wrap("removing lock state file", Err("EPERM")), file |-> file]
    ELSE [err |-> Nil, file |-> NoLedger]

\* io: "ok", "path" (xdg.LockStateFile fails) or "remove" (os.Remove fails with
\* an error other than not-exist)
Unlock(file, io) ==
    IF io = "path"
    THEN [err |-> Wrap("getting lock state file path", Err("EACCES")), file |-> file]
    ELSE IF io = "remove" /\ file.exists
    THEN [err |-> Wrap("removing lock state file", Err("EPERM")), file |-> file]
    ELSE [err |-> Nil, file |-> NoLedger]

\* io: "ok", "path" (xdg.LockStateFile fails) or "read" (os.ReadFile fails)
LoadState(file, io) ==
    IF io = "path"
    THEN [state |-> ZeroState, err |-> Wrap("getting lock state file path", Err("EACCES"))]
    ELSE IF ~file.exists THEN [state |-> ZeroState, err |-> ErrNotLocked]
    ELSE IF io = "read"
    THEN [state |-> ZeroState, err |-> Wrap("reading lock state file", Err("EIO"))]
    ELSE IF ~file.parses
    THEN [state |-> ZeroState, err |-> Wrap("parsing lock state", Err("unexpected end of JSON input"))]
    ELSE [state |-> Unmarshal(file.obj), err |-> Nil]

\* IsLocked that answers by whether a record could be loaded, not by its flag
IsLocked_AnyRecord(file, io) == LoadState(file, io).err = Nil

IsLocked(file, io) ==
    LET got == LoadState(file, io)
    IN  IF got.err # Nil THEN FALSE ELSE got.state.Locked

LockDuration(file, io, t) ==
    LET got == LoadState(file, io)
    IN  IF got.err # Nil THEN [d |-> 0, err |-> got.err]
        ELSE [d |-> t - got.state.LockedAt, err |-> Nil]

\* socket.go: restore the socket from the stored state (no command calls it)
RestoreSocketFromState(file, m, io) ==
    LET got == LoadState(file, "ok")
    IN  IF got.err # Nil THEN [err |-> got.err, mode |-> m]
        ELSE IF got.state.SocketPath = <<>> \/ got.state.SocketPerm = 0
             THEN [err |-> Nil, mode |-> m]
        ELSE RestoreSocket(got.state.SocketPath, got.state.SocketPerm, m, io)

\* ---- internal/lock credential store (password.go)

ErrNoPassword == Err("no password configured")
ErrInvalidFormat == Err("invalid password file format")

\* A string is the sequence of its characters.
EmptyString == <<>>

\* %d of fmt.Sprintf for n >= 0
Digits == <<"0", "1", "2", "3", "4", "5", "6", "7", "8", "9">>
RECURSIVE Itoa(_)
Itoa(n) ==
    IF n < 10 THEN <<Digits[n + 1]>>
    ELSE Itoa(n \div 10) \o <<Digits[(n % 10) + 1]>>

\* the alphabet of base64.StdEncoding
B64Chars ==
    <<"A", "B", "C", "D", "E", "F", "G", "H", "I", "J", "K", "L", "M",
      "N", "O", "P", "Q", "R", "S", "T", "U", "V", "W", "X", "Y", "Z",
      "a", "b", "c", "d", "e", "f", "g", "h", "i", "j", "k", "l", "m",
      "n", "o", "p", "q", "r", "s", "t", "u", "v", "w", "x", "y", "z",
      "0", "1", "2", "3", "4", "5", "6", "7", "8", "9", "+", "/">>
B64Alphabet == {B64Chars[i] : i \in DOMAIN B64Chars}
B64Char(v) == B64Chars[v + 1]
\* the 6-bit value of each character of the alphabet
B64Value ==
    [c \in B64Alphabet |-> (CHOOSE i \in DOMAIN B64Chars : B64Chars[i] = c) - 1]
B64Index(c) == B64Value[c]

\* base64.RawStdEncoding.EncodeToString: each 3 bytes give 4 characters of 6
\* bits, the last 1 or 2 bytes give 2 or 3 characters, and there is no padding
B64Encode(x) ==
    LET byte(i) == IF i <= Len(x) THEN x[i] ELSE 0
        char(k) ==
            LET b1 == byte(3 * (k \div 4) + 1)
                b2 == byte(3 * (k \div 4) + 2)
                b3 == byte(3 * (k \div 4) + 3)
            IN  CASE k % 4 = 0 -> B64Char(b1 \div 4)
                  [] k % 4 = 1 -> B64Char((b1 % 4) * 16 + b2 \div 16)
                  [] k % 4 = 2 -> B64Char((b2 % 16) * 4 + b3 \div 64)
                  [] OTHER -> B64Char(b3 % 64)
    IN  [i \in 1..((Len(x) * 4 + 2) \div 3) |-> char(i - 1)]

\* the 6-bit values of base64 characters
B64Values(t) == [i \in 1..Len(t) |-> B64Index(t[i])]

\* the bytes of 6-bit values v (the bits left over at the end are dropped)
B64Bytes(v) ==
    LET val(i) == IF i <= Len(v) THEN v[i] ELSE 0
        byte(j) ==
            CASE j % 3 = 0 ->
                    val(4 * (j \div 3) + 1) * 4 + val(4 * (j \div 3) + 2) \div 16
              [] j % 3 = 1 ->
                    (val(4 * (j \div 3) + 2) % 16) * 16
                        + val(4 * (j \div 3) + 3) \div 4
              [] OTHER ->
                    (val(4 * (j \div 3) + 3) % 4) * 64 + val(4 * (j \div 3) + 4)
    IN  [i \in 1..((Len(v) * 3) \div 4) |-> byte(i - 1)]

NotNewline(c) == c \notin {"\n", "\r"}

\* DecodeString on text without newlines
B64DecodeText(t) ==
    IF (\E i \in DOMAIN t : t[i] \notin B64Alphabet) \/ Len(t) % 4 = 1
    THEN [v |-> <<>>, err |-> Err("illegal base64 data")]
    ELSE [v |-> B64Bytes(B64Values(t)), err |-> Nil]

\* base64.RawStdEncoding.DecodeString: newlines are skipped; a character out of
\* the alphabet (padding too) or a single character left over is an error
B64Decode(f) == B64DecodeText(SelectSeq(f, NotNewline))

\* argon2.IDKey as an ideal hash: keyLen bytes that determine the password, the
\* salt and the cost parameters (for inputs short enough to fit)
IDKey(password, salt, time, memory, threads, keyLen) ==
    LET input == <<Len(password)>> \o password
                   \o <<time % 256, (memory \div 256) % 256, memory % 256,
                        threads % 256>>
                   \o salt
    IN  [i \in 1..keyLen |-> IF i <= Len(input) THEN input[i] ELSE 0]

Argon2id == <<"a", "r", "g", "o", "n", "2", "i", "d">>

\* Sprintf that leaves out the version field
Sprintf_NoVersion(version, memory, time, threads, saltB64, hashB64) ==
    <<"$">> \o Argon2id
        \o <<"$", "m", "=">> \o Itoa(memory) \o <<",", "t", "=">> \o Itoa(time)
        \o <<",", "p", "=">> \o Itoa(threads)
        \o <<"$">> \o saltB64 \o <<"$">> \o hashB64

\* fmt.Sprintf("$argon2id$v=%d$m=%d,t=%d,p=%d$%s$%s", ...)
Sprintf(version, memory, time, threads, saltB64, hashB64) ==
    <<"$">> \o Argon2id \o <<"$", "v", "=">> \o Itoa(version)
        \o <<"$", "m", "=">> \o Itoa(memory) \o <<",", "t", "=">> \o Itoa(time)
        \o <<",", "p", "=">> \o Itoa(threads)
        \o <<"$">> \o saltB64 \o <<"$">> \o hashB64

\* HashPassword that uses the same salt every time
HashPassword_FixedSalt(password, salt) ==
    LET fixed == [i \in 1..saltLen |-> 0]
        hash == IDKey(password, fixed, argon2Time, argon2Memory, argon2Threads,
                      argon2KeyLen)
    IN  Sprintf(argon2Version, argon2Memory, argon2Time, argon2Threads,
                B64Encode(fixed), B64Encode(hash))

\* salt: the saltLen bytes rand.Read returned
HashPassword(password, salt) ==
    LET hash == IDKey(password, salt, argon2Time, argon2Memory, argon2Threads,
                      argon2KeyLen)
    IN  Sprintf(argon2Version, argon2Memory, argon2Time, argon2Threads,
                B64Encode(salt), B64Encode(hash))

\* parseEncodedHash from the decoding of the two base64 fields on
decodedFields(salt, hash) ==
    IF salt.err # Nil
    THEN [salt |-> <<>>, hash |-> <<>>, err |-> Wrap("decoding salt", salt.err)]
    ELSE IF hash.err # Nil
    THEN [salt |-> <<>>, hash |-> <<>>, err |-> Wrap("decoding hash", hash.err)]
    ELSE [salt |-> salt.v, hash |-> hash.v, err |-> Nil]

\* parseEncodedHash from the split on: parts is strings.Split(encoded, "$")
parseParts(parts) ==
    IF Len(parts) # 6
    THEN [salt |-> <<>>, hash |-> <<>>, err |-> ErrInvalidFormat]
    ELSE IF parts[2] # Argon2id
    THEN [salt |-> <<>>, hash |-> <<>>, err |-> ErrInvalidFormat]
    ELSE decodedFields(B64Decode(parts[5]), B64Decode(parts[6]))

parseEncodedHash(encoded) == parseParts(Split(encoded, "$"))

\* a comparison that looks at the lengths only
ConstantTimeCompare_LengthOnly(a, b) == Len(a) = Len(b)

\* subtle.ConstantTimeCompare(a, b) == 1
ConstantTimeCompare(a, b) == a = b

\* VerifyPassword from the result p of parseEncodedHash on
verifyParsed(password, p) ==
    IF p.err # Nil THEN [valid |-> FALSE, err |-> p.err]
    ELSE [valid |-> ConstantTimeCompare(p.hash,
                      IDKey(password, p.salt, argon2Time, argon2Memory,
                            argon2Threads, argon2KeyLen)),
          err |-> Nil]

VerifyPassword(password, encoded) ==
    verifyParsed(password, parseEncodedHash(encoded))

\* the credential file: absent, or its text
NoPasswd == [exists |-> FALSE, text |-> EmptyString]
EmptyPasswd == [exists |-> TRUE, text |-> EmptyString]
PasswdOf(encoded) == [exists |-> TRUE, text |-> encoded \o <<"\n">>]

\* SavePassword that stores the password encoded but neither salted nor hashed
SavePassword_Unhashed(password, salt, file, io) ==
    IF io = "path"
    THEN [err |-> Wrap("getting password file path", Err("EACCES")), file |-> file]
    ELSE IF io = "open"
    THEN [err |-> Wrap("writing password file", Err("EACCES")), file |-> file]
    ELSE IF io = "write"
    THEN [err |-> Wrap("writing password file", Err("ENOSPC")), file |-> EmptyPasswd]
    ELSE [err |-> Nil, file |-> PasswdOf(B64Encode(password))]

\* io: "ok", "path" (xdg.PasswordFile fails), "open" (os.WriteFile cannot open
\* the file) or "write" (os.WriteFile has truncated the file and the write fails)
SavePassword(password, salt, file, io) ==
    IF io = "path"
    THEN [err |-> Wrap("getting password file path", Err("EACCES")), file |-> file]
    ELSE IF io = "open"
    THEN [err |-> Wrap("writing password file", Err("EACCES")), file |-> file]
    ELSE IF io = "write"
    THEN [err |-> Wrap("writing password file", Err("ENOSPC")), file |-> EmptyPasswd]
    ELSE [err |-> Nil, file |-> PasswdOf(HashPassword(password, salt))]

IsSpace(c) == c \in {" ", "\t", "\n", "\r"}

\* strings.TrimSpace: the text without the white space at its two ends
RECURSIVE TrimSpace(_)
TrimSpace(str) ==
    IF str = <<>> THEN <<>>
    ELSE IF IsSpace(Head(str)) THEN TrimSpace(Tail(str))
    ELSE IF IsSpace(str[Len(str)]) THEN TrimSpace(SubSeq(str, 1, Len(str) - 1))
    ELSE str

LoadPasswordHash(file) ==
    IF ~file.exists THEN [hash |-> EmptyString, err |-> ErrNoPassword]
    ELSE [hash |-> TrimSpace(file.text), err |-> Nil]

\* PasswordExists that never finds the file
PasswordExists_Never(file) == FALSE

PasswordExists(file) == file.exists

CheckPassword(password, file) ==
    LET h == LoadPasswordHash(file)
    IN  IF h.err # Nil THEN [valid |-> FALSE, err |-> h.err]
        ELSE VerifyPassword(password, h.hash)

\* ---- internal/lock secure input (input.go)

ArrowUpMarker == <<0, 1>>
ArrowDownMarker == <<0, 2>>
ArrowLeftMarker == <<0, 3>>
ArrowRightMarker == <<0, 4>>
ArrowKeys == {"KeyUp", "KeyDown", "KeyLeft", "KeyRight"}

ArrowKeyMarker(key) ==
    CASE key = "KeyUp" -> ArrowUpMarker
      [] key = "KeyDown" -> ArrowDownMarker
      [] key = "KeyLeft" -> ArrowLeftMarker
      [] key = "KeyRight" -> ArrowRightMarker
      [] OTHER -> <<>>

\* IsArrowMarkerSuffix that knows the markers of Up and Down only
IsArrowMarkerSuffix_UpDownOnly(data) ==
    IF Len(data) < 2 THEN [isArrow |-> FALSE, n |-> 1]
    ELSE IF SubSeq(data, Len(data) - 1, Len(data))
              \in {ArrowUpMarker, ArrowDownMarker}
         THEN [isArrow |-> TRUE, n |-> 2]
    ELSE [isArrow |-> FALSE, n |-> 1]

IsArrowMarkerSuffix(data) ==
    IF Len(data) < 2 THEN [isArrow |-> FALSE, n |-> 1]
    ELSE IF SubSeq(data, Len(data) - 1, Len(data))
              \in {ArrowUpMarker, ArrowDownMarker, ArrowLeftMarker, ArrowRightMarker}
         THEN [isArrow |-> TRUE, n |-> 2]
    ELSE [isArrow |-> FALSE, n |-> 1]

Zeros(n) == [i \in 1..n |-> 0]

\* ClearBytes: the slice after every byte is overwritten with zero
ClearBytes(b) == Zeros(Len(b))

\* utf8.EncodeRune for runes below U+0800
EncodeRune(r) ==
    IF r < 128 THEN <<r>> ELSE <<192 + (r \div 64), 128 + (r % 64)>>

\* A SecureBuffer is its backing array `mem` (as far as it was ever written) and
\* the length `len` of sb.data, which is the first `len` bytes of `mem`.
NewSecureBuffer == [mem |-> <<>>, len |-> 0]
Data(sb) == SubSeq(sb.mem, 1, sb.len)

\* append(sb.data, bytes...) within the capacity: overwrites the array after len
SbAppend(sb, bytes) ==
    [mem |-> Data(sb) \o bytes
               \o SubSeq(sb.mem, sb.len + Len(bytes) + 1, Len(sb.mem)),
     len |-> sb.len + Len(bytes)]

AppendRune(sb, r) == SbAppend(sb, EncodeRune(r))
AppendString(sb, str) == SbAppend(sb, str)

Backspace(sb) ==
    IF sb.len = 0 THEN [sb |-> sb, removed |-> FALSE]
    ELSE LET suf == IsArrowMarkerSuffix(Data(sb))
         IN  IF suf.isArrow
             THEN [sb |-> [sb EXCEPT !.len = sb.len - suf.n], removed |-> TRUE]
             ELSE [sb |-> [sb EXCEPT !.len = sb.len - 1], removed |-> TRUE]

\* zeroes sb.data[0:len], then truncates
Clear(sb) ==
    [mem |-> Zeros(sb.len) \o SubSeq(sb.mem, sb.len + 1, Len(sb.mem)),
     len |-> 0]

\* a copy of sb.data
Bytes(sb) == Data(sb)

Destroy(sb) == Clear(sb)

\* ---- Events and key handlers (main.go)

Keys ==
    {"KeyEnter", "KeyBackspace", "KeyBackspace2", "KeyUp", "KeyDown", "KeyLeft",
     "KeyRight", "KeyRune", "KeyEscape", "KeyCtrlC"}

KeyEvent(k, r) == [t |-> "key", key |-> k, rune |-> r, w |-> 0, h |-> 0]
\* an EventResize; w, h: what screen.Size() returns when it is handled
ResizeEvent(w, h) == [t |-> "resize", key |-> "", rune |-> 0, w |-> w, h |-> h]
\* any other tcell event (mouse, focus, ...)
OtherEvent == [t |-> "other", key |-> "", rune |-> 0, w |-> 0, h |-> 0]

\* the events the model delivers (of the four arrow keys, Up)
Events ==
    {KeyEvent(k, 0) : k \in Keys \ {"KeyRune", "KeyDown", "KeyLeft", "KeyRight"}}
        \cup {KeyEvent("KeyRune", r) : r \in Runes}
        \cup {ResizeEvent(sz[1], sz[2]) : sz \in Sizes}
        \cup {OtherEvent}

actionNone == "actionNone"
actionExit == "actionExit"
actionResize == "actionResize"

\* tryUnlock that does not clear the buffer after a rejected attempt
tryUnlock_KeepsBuffer(sb, file) ==
    LET password == Bytes(sb)
        chk == CheckPassword(password, file)
    IN  [ok |-> chk.err = Nil /\ chk.valid, sb |-> sb,
         password |-> ClearBytes(password)]

\* Result: whether the password was accepted, the buffer afterwards, and the
\* bytes the snapshot slice holds when tryUnlock returns (deferred ClearBytes).
tryUnlock(sb, file) ==
    LET password == Bytes(sb)
        chk == CheckPassword(password, file)
    IN  IF chk.err # Nil \/ ~chk.valid
        THEN [ok |-> FALSE, sb |-> Clear(sb), password |-> ClearBytes(password)]
        ELSE [ok |-> TRUE, sb |-> sb, password |-> ClearBytes(password)]

\* Result: the action, the buffer and the last snapshot slice afterwards
handleKeyLock(ev, sb, att, file) ==
    CASE ev.key = "KeyEnter" ->
            LET u == tryUnlock(sb, file)
            IN  [act |-> IF u.ok THEN actionExit ELSE actionNone,
                 sb |-> u.sb, att |-> u.password]
      [] ev.key \in {"KeyBackspace", "KeyBackspace2"} ->
            [act |-> actionNone, sb |-> Backspace(sb).sb, att |-> att]
      [] ev.key \in ArrowKeys ->
            [act |-> actionNone, sb |-> AppendString(sb, ArrowKeyMarker(ev.key)),
             att |-> att]
      [] ev.key = "KeyRune" ->
            [act |-> actionNone, sb |-> AppendRune(sb, ev.rune), att |-> att]
      [] OTHER -> [act |-> actionNone, sb |-> sb, att |-> att]

clamp(v, min, max) == IF v < min THEN min ELSE IF v > max THEN max ELSE v

\* the flame (heatPower, heatSources) after adjustHeat on a screen of width w
adjustHeat(flame, w, powerDelta, sourcesDelta) ==
    [heatPower |-> clamp(flame.heatPower + powerDelta, minHeat, maxHeat),
     heatSources |-> clamp(flame.heatSources + sourcesDelta, minSources, w)]

\* handleKeyNormal that exits on every key
handleKeyNormal_ExitOnAny(ev) == actionExit

\* the action handleKeyNormal returns (adjustHeat changes only the flame)
handleKeyNormal(ev) ==
    CASE ev.key = "KeyEscape" -> actionExit
      [] ev.key = "KeyUp" -> actionNone
      [] ev.key = "KeyDown" -> actionNone
      [] OTHER -> actionExit

\* the flame handleKeyNormal leaves
handleKeyNormalFlame(ev, flame, w) ==
    CASE ev.key = "KeyEscape" -> flame
      [] ev.key = "KeyUp" -> adjustHeat(flame, w, 5, 1)
      [] ev.key = "KeyDown" -> adjustHeat(flame, w, -5, -1)
      [] OTHER -> flame

handleKeyPlayground(ev) ==
    IF ev.key = "KeyEscape" THEN actionExit ELSE actionNone

handleKey(ev, m, sb, att, file) ==
    CASE m = ModeLock -> handleKeyLock(ev, sb, att, file)
      [] m = ModePlayground ->
            [act |-> handleKeyPlayground(ev), sb |-> sb, att |-> att]
      [] OTHER -> [act |-> handleKeyNormal(ev), sb |-> sb, att |-> att]

\* Result: the action, and size, buffer and snapshot slice afterwards
handleEvent(ev, m, sz, sb, att, file) ==
    CASE ev.t = "resize" ->
            [act |-> IF ev.w <= 0 \/ ev.h <= 0 THEN actionExit ELSE actionResize,
             size |-> <<ev.w, ev.h>>, sb |-> sb, att |-> att]
      [] ev.t = "key" ->
            LET k == handleKey(ev, m, sb, att, file)
            IN  [act |-> k.act, size |-> sz, sb |-> k.sb, att |-> k.att]
      [] OTHER -> [act |-> actionNone, size |-> sz, sb |-> sb, att |-> att]

\* ---- The process

NoOutput == [password |-> "", status |-> "", d |-> 0]
\* no pollEvents goroutine runs
NoPoller == [pc |-> "none", ev |-> <<>>]
\* no VisualState (a nil pointer), and no idle watcher
NoVisual == <<>>
NoIdle == [pc |-> "none", timeout |-> 0, waiting |-> FALSE]
Call(fn, perm, err) == [fn |-> fn, perm |-> perm, err |-> err]

\* the variables of a process that has just started command c
Start(c, env, protect, m) ==
    /\ pc = "idle"
    /\ cmd' = c
    /\ tmuxEnv' = env
    /\ socketProtect' = protect
    /\ mode' = m
    /\ originalPerm' = 0
    /\ defers' = <<>>
    /\ size' = <<0, 0>>
    /\ inputBuffer' = NewSecureBuffer
    /\ attempt' = <<>>
    /\ calls' = <<>>
    /\ unlocked' = FALSE
    /\ startMode' = sockMode
    /\ killed' = FALSE
    /\ events' = <<>>
    /\ polled' = <<>>
    /\ poller' = NoPoller
    /\ visualState' = NoVisual
    /\ idle' = NoIdle

Init ==
    /\ passwd = NoPasswd
    /\ ledger = NoLedger
    /\ sockMode \in InitModes
    /\ now = 0
    /\ pc = "idle"
    /\ cmd = "none"
    /\ tmuxEnv = Unset
    /\ socketProtect = FALSE
    /\ mode = ModeNormal
    /\ socketPath = <<>>
    /\ originalPerm = 0
    /\ defers = <<>>
    /\ size = <<0, 0>>
    /\ inputBuffer = NewSecureBuffer
    /\ attempt = <<>>
    /\ retErr = Nil
    /\ stdout = NoOutput
    /\ calls = <<>>
    /\ unlocked = FALSE
    /\ startMode = 0
    /\ killed = FALSE
    /\ events = <<>>
    /\ polled = <<>>
    /\ poller = NoPoller
    /\ visualState = NoVisual
    /\ idle = NoIdle

\* execLock up to the call of RestrictSocket: the checks of the credential, of
\* TMUX and of the socket descriptor
ExecLock(env, protect) ==
    /\ now < MaxClock
    /\ Start("lock", env, protect, ModeNormal)
    /\ stdout' = NoOutput
    /\ UNCHANGED <<passwd, ledger, sockMode, now>>
    /\ IF ~PasswordExists(passwd)
       THEN /\ retErr' = Err("no password configured")
            /\ socketPath' = <<>>
            /\ pc' = "return"
       ELSE IF Getenv(env) = <<>>
       THEN /\ retErr' = Err("not running inside tmux")
            /\ socketPath' = <<>>
            /\ pc' = "return"
       ELSE IF protect
       THEN LET got == GetTmuxSocketPath(env)
            IN  IF got.err # Nil
                THEN /\ retErr' = Wrap("getting tmux socket", got.err)
                     /\ socketPath' = <<>>
                     /\ pc' = "return"
                ELSE /\ retErr' = Nil
                     /\ socketPath' = got.path
                     /\ pc' = "restrict"
       ELSE /\ retErr' = Nil
            /\ socketPath' = <<>>
            /\ pc' = "lockstate"

\* execLock: originalPerm, err = lock.RestrictSocket(socketPath); defer RestoreSocket
ExecLockRestrict(io) ==
    /\ pc = "restrict"
    /\ LET r == RestrictSocket(socketPath, sockMode, io)
       IN  /\ sockMode' = r.mode
           /\ calls' = Append(calls, Call("RestrictSocket", r.perm, r.err))
           /\ IF r.err # Nil
              THEN /\ retErr' = Wrap("restricting socket", r.err)
                   /\ pc' = "return"
                   /\ UNCHANGED <<originalPerm, defers>>
              ELSE /\ originalPerm' = r.perm
                   /\ defers' = Append(defers, "RestoreSocket")
                   /\ pc' = "lockstate"
                   /\ UNCHANGED retErr
    /\ UNCHANGED <<passwd, ledger, now, cmd, tmuxEnv, socketProtect, mode,
                   socketPath, size, inputBuffer, attempt, stdout,
                   unlocked, startMode, killed, events, polled, poller,
                   visualState, idle>>

\* execLock: lock.Lock(socketPath, originalPerm); defer Unlock; execScreensaver
ExecLockState(io) ==
    /\ pc = "lockstate"
    /\ LET r == Lock(socketPath, originalPerm, now, ledger, io)
       IN  /\ ledger' = r.file
           /\ now' = now + 1
           /\ calls' = Append(calls, Call("Lock", originalPerm, r.err))
           /\ IF r.err # Nil
              THEN /\ retErr' = Wrap("creating lock state", r.err)
                   /\ pc' = "return"
                   /\ UNCHANGED <<defers, mode>>
              ELSE /\ defers' = Append(defers, "Unlock")
                   /\ mode' = ModeLock
                   /\ pc' = "screen"
                   /\ UNCHANGED retErr
    /\ UNCHANGED <<passwd, sockMode, cmd, tmuxEnv, socketProtect, socketPath,
                   originalPerm, size, inputBuffer, attempt, stdout,
                   unlocked, startMode, killed, events, polled, poller,
                   visualState, idle>>

\* the run command (and the root command): execScreensaver in mode m
ExecRun(m) ==
    /\ Start("run", Unset, FALSE, m)
    /\ socketPath' = <<>>
    /\ retErr' = Nil
    /\ stdout' = NoOutput
    /\ pc' = "screen"
    /\ UNCHANGED <<passwd, ledger, sockMode, now>>

\* execScreensaver: the credential check of lock mode, newScreensaver, defer
\* s.close(), and run() up to its loop.  io: "ok" or "screen" (no screen);
\* sz: what screen.Size() returns
ExecScreensaver(io, sz) ==
    /\ pc = "screen"
    /\ IF mode = ModeLock /\ ~PasswordExists(passwd)
       THEN /\ retErr' = Err("no password configured")
            /\ pc' = "return"
            /\ UNCHANGED <<defers, size, inputBuffer>>
       ELSE IF io = "screen"
       THEN /\ retErr' = Wrap("creating screen", Err("terminal not set"))
            /\ pc' = "return"
            /\ UNCHANGED <<defers, size, inputBuffer>>
       ELSE /\ size' = sz
            /\ inputBuffer' = NewSecureBuffer
            /\ defers' = Append(defers, "close")
            /\ pc' = IF sz[1] <= 0 \/ sz[2] <= 0 THEN "return" ELSE "loop"
            /\ UNCHANGED retErr
    /\ UNCHANGED <<passwd, ledger, sockMode, now, cmd, tmuxEnv, socketProtect,
                   mode, socketPath, originalPerm, attempt, stdout, calls,
                   unlocked, startMode, killed, events, polled, poller,
                   visualState, idle>>

\* one event that PollEvent returns, carried through the channel and handled
\* by processEvents, in one step (the channel is empty before and after; the
\* goroutine and the channel are followed step by step further down, and so
\* is the visual state that handleKey and every frame update)
ProcessEvent(ev) ==
    /\ pc = "loop"
    /\ LET r == handleEvent(ev, mode, size, inputBuffer, attempt, passwd)
       IN  /\ r.sb.len <= MaxBuf
           /\ size' = r.size
           /\ inputBuffer' = r.sb
           /\ attempt' = r.att
           /\ pc' = IF r.act = actionExit THEN "return" ELSE "loop"
           /\ unlocked' = (mode = ModeLock /\ ev.t = "key" /\ r.act = actionExit)
    /\ UNCHANGED <<passwd, ledger, sockMode, now, cmd, tmuxEnv, socketProtect,
                   mode, socketPath, originalPerm, defers, retErr, stdout, calls,
                   startMode, killed, events, polled, poller,
                   visualState, idle>>

\* the deferred calls run last registered first
Top(stack) == stack[Len(stack)]
Pop(stack) == SubSeq(stack, 1, Len(stack) - 1)

\* deferred s.close(): inputBuffer.Destroy() in lock mode, screen.Fini()
DeferClose ==
    /\ pc = "return"
    /\ defers # <<>>
    /\ Top(defers) = "close"
    /\ defers' = Pop(defers)
    /\ inputBuffer' = IF mode = ModeLock THEN Destroy(inputBuffer) ELSE inputBuffer
    /\ UNCHANGED <<passwd, ledger, sockMode, now, pc, cmd, tmuxEnv, socketProtect,
                   mode, socketPath, originalPerm, size, attempt, retErr, stdout,
                   calls,
                   unlocked, startMode, killed, events, polled, poller,
                   visualState, idle>>

\* deferred lock.Unlock(): its error is dropped
DeferUnlock(io) ==
    /\ pc = "return"
    /\ defers # <<>>
    /\ Top(defers) = "Unlock"
    /\ defers' = Pop(defers)
    /\ LET r == Unlock(ledger, io)
       IN  /\ ledger' = r.file
           /\ calls' = Append(calls, Call("Unlock", 0, r.err))
    /\ UNCHANGED <<passwd, sockMode, now, pc, cmd, tmuxEnv, socketProtect, mode,
                   socketPath, originalPerm, size, inputBuffer, attempt, retErr,
                   stdout,
                   unlocked, startMode, killed, events, polled, poller,
                   visualState, idle>>

\* deferred lock.RestoreSocket(socketPath, originalPerm): its error is dropped
DeferRestoreSocket(io) ==
    /\ pc = "return"
    /\ defers # <<>>
    /\ Top(defers) = "RestoreSocket"
    /\ defers' = Pop(defers)
    /\ LET r == RestoreSocket(socketPath, originalPerm, sockMode, io)
       IN  /\ sockMode' = r.mode
           /\ calls' = Append(calls, Call("RestoreSocket", originalPerm, r.err))
    /\ UNCHANGED <<passwd, ledger, now, pc, cmd, tmuxEnv, socketProtect, mode,
                   socketPath, originalPerm, size, inputBuffer, attempt, retErr,
                   stdout,
                   unlocked, startMode, killed, events, polled, poller,
                   visualState, idle>>

\* the process is gone: nothing of it is left
Gone ==
    /\ pc' = "idle"
    /\ cmd' = "none"
    /\ tmuxEnv' = Unset
    /\ socketProtect' = FALSE
    /\ mode' = ModeNormal
    /\ socketPath' = <<>>
    /\ originalPerm' = 0
    /\ defers' = <<>>
    /\ size' = <<0, 0>>
    /\ inputBuffer' = NewSecureBuffer
    /\ attempt' = <<>>
    /\ retErr' = Nil
    /\ stdout' = NoOutput
    /\ calls' = <<>>
    /\ unlocked' = FALSE
    /\ startMode' = 0
    /\ events' = <<>>
    /\ polled' = <<>>
    /\ poller' = NoPoller
    /\ visualState' = NoVisual
    /\ idle' = NoIdle

\* the command has returned to main, which prints retErr and exits
Return ==
    /\ pc = "return"
    /\ defers = <<>>
    /\ Gone
    /\ killed' = FALSE
    /\ UNCHANGED <<passwd, ledger, sockMode, now>>

\* SIGINT, SIGTERM or SIGKILL: no command of the lock path handles a signal, so
\* the process ends where it is and no deferred call runs
Signal ==
    /\ pc # "idle"
    /\ Gone
    /\ killed' = (cmd = "lock" /\ pc \in {"screen", "loop"}
                    /\ defers # <<>> /\ defers[1] = "RestoreSocket")
    /\ UNCHANGED <<passwd, ledger, sockMode, now>>

\* execLockStatus.  io1, io2: outcomes of the two reads of the state file
ExecLockStatus(io1, io2) ==
    /\ Start("status", Unset, FALSE, ModeNormal)
    /\ socketPath' = <<>>
    /\ retErr' = Nil
    /\ stdout' =
         [password |-> IF PasswordExists(passwd) THEN "configured"
                       ELSE "not configured",
          status |-> IF IsLocked(ledger, io1) THEN "locked" ELSE "unlocked",
          d |-> IF IsLocked(ledger, io1) THEN LockDuration(ledger, io2, now).d
                ELSE 0]
    /\ pc' = "return"
    /\ UNCHANGED <<passwd, ledger, sockMode, now>>

\* what readPasswordWithArrows can return: a password or an error
Passwords == {<<97>>, <<0, 1>>}
Entries ==
    {[pw |-> p, err |-> Nil] : p \in Passwords \cup {<<>>}}
        \cup {[pw |-> <<>>, err |-> Err("interrupted")]}

\* execSetPassword.  answer: the reply to "Replace it?"; entered, confirm: the
\* two results of readPasswordWithArrows; salt, io: as for SavePassword
ExecSetPassword(answer, entered, confirm, salt, io) ==
    /\ Start("set-password", Unset, FALSE, ModeNormal)
    /\ socketPath' = <<>>
    /\ stdout' = NoOutput
    /\ pc' = "return"
    /\ UNCHANGED <<ledger, sockMode, now>>
    /\ IF PasswordExists(passwd) /\ answer \notin {"y", "yes"}
       THEN retErr' = Nil /\ UNCHANGED passwd
       ELSE IF entered.err # Nil
       THEN retErr' = Wrap("reading password", entered.err) /\ UNCHANGED passwd
       ELSE IF Len(entered.pw) = 0
       THEN retErr' = Err("password cannot be empty") /\ UNCHANGED passwd
       ELSE IF confirm.err # Nil
       THEN retErr' = Wrap("reading confirmation", confirm.err) /\ UNCHANGED passwd
       ELSE IF entered.pw # confirm.pw
       THEN retErr' = Err("passwords do not match") /\ UNCHANGED passwd
       ELSE LET r == SavePassword(entered.pw, salt, passwd, io)
            IN  /\ passwd' = r.file
                /\ retErr' = IF r.err # Nil THEN Wrap("saving password", r.err)
                             ELSE Nil

Next ==
    \/ \E env \in TmuxEnvs, protect \in BOOLEAN : ExecLock(env, protect)
    \/ \E io \in {"ok", "stat", "chmod"} : ExecLockRestrict(io)
    \/ \E io \in {"ok", "path", "open", "write"} : ExecLockState(io)
    \/ \E m \in Modes : ExecRun(m)
    \/ \E io \in {"ok", "screen"}, sz \in Sizes : ExecScreensaver(io, sz)
    \/ \E ev \in Events : ProcessEvent(ev)
    \/ DeferClose
    \/ \E io \in {"ok", "remove"} : DeferUnlock(io)
    \/ \E io \in {"ok", "chmod"} : DeferRestoreSocket(io)
    \/ Return
    \/ Signal
    \/ \E io1, io2 \in {"ok", "path", "read"} : ExecLockStatus(io1, io2)
    \/ \E answer \in {"y", "n"}, entered, confirm \in Entries, salt \in Salts,
          io \in {"ok", "path", "open", "write"} :
            ExecSetPassword(answer, entered, confirm, salt, io)

Spec == Init /\ [][Next]_vars

\* ---- The lock-state ledger called directly (state.go as a library)

\* longest log of ledger calls
MaxCalls == 3

\* no process runs: the variables of the process are as a process leaves them
NoProcess ==
    /\ pc = "idle"
    /\ cmd = "none"
    /\ tmuxEnv = Unset
    /\ socketProtect = FALSE
    /\ mode = ModeNormal
    /\ socketPath = <<>>
    /\ originalPerm = 0
    /\ defers = <<>>
    /\ size = <<0, 0>>
    /\ inputBuffer = NewSecureBuffer
    /\ attempt = <<>>
    /\ retErr = Nil
    /\ stdout = NoOutput
    /\ unlocked = FALSE
    /\ startMode = 0
    /\ killed = FALSE
    /\ events = <<>>
    /\ polled = <<>>
    /\ poller = NoPoller
    /\ visualState = NoVisual
    /\ idle = NoIdle

\* state files LoadState can meet: none, one cut short, the objects {} and
\* {"locked": false, ...}, and a record Lock has written
LedgerFiles ==
    { NoLedger,
      TruncatedLedger,
      LedgerOf(EmptyObj),
      LedgerOf(Marshal([Locked |-> FALSE, LockedAt |-> 0, SocketPath |-> <<>>,
                        SocketPerm |-> 0])),
      LedgerOf(Marshal([Locked |-> TRUE, LockedAt |-> 0, SocketPath |-> SockPath,
                        SocketPerm |-> 448])) }

\* the (socketPath, socketPerm) arguments Lock is called with
LockArgs == {<<<<>>, 0>>, <<SockPath, 448>>}

\* a logged call that returns a value and no error
CallRet(fn, ret) == [fn |-> fn, perm |-> 0, err |-> Nil, ret |-> ret]

LedgerInit ==
    /\ NoProcess
    /\ passwd = NoPasswd
    /\ ledger \in LedgerFiles
    /\ sockMode \in InitModes
    /\ now = 0
    /\ calls = <<>>

LedgerLock(arg, io) ==
    /\ now < MaxClock
    /\ Len(calls) < MaxCalls
    /\ LET r == Lock(arg[1], arg[2], now, ledger, io)
       IN  /\ ledger' = r.file
           /\ calls' = Append(calls, Call("Lock", arg[2], r.err))
    /\ now' = now + 1
    /\ UNCHANGED <<passwd, sockMode, pc, cmd, tmuxEnv, socketProtect, mode,
                   socketPath, originalPerm, defers, size, inputBuffer, attempt,
                   retErr, stdout, unlocked, startMode, killed,
                   events, polled, poller,
                   visualState, idle>>

LedgerUnlock(io) ==
    /\ Len(calls) < MaxCalls
    /\ LET r == Unlock(ledger, io)
       IN  /\ ledger' = r.file
           /\ calls' = Append(calls, Call("Unlock", 0, r.err))
    /\ UNCHANGED <<passwd, sockMode, now, pc, cmd, tmuxEnv, socketProtect, mode,
                   socketPath, originalPerm, defers, size, inputBuffer, attempt,
                   retErr, stdout, unlocked, startMode, killed,
                   events, polled, poller,
                   visualState, idle>>

LedgerIsLocked(io) ==
    /\ Len(calls) < MaxCalls
    /\ calls' = Append(calls, CallRet("IsLocked", IsLocked(ledger, io)))
    /\ UNCHANGED <<passwd, ledger, sockMode, now, pc, cmd, tmuxEnv, socketProtect,
                   mode, socketPath, originalPerm, defers, size, inputBuffer,
                   attempt, retErr, stdout, unlocked, startMode, killed,
                   events, polled, poller,
                   visualState, idle>>

LedgerNext ==
    \/ \E arg \in LockArgs, io \in {"ok", "path", "open", "write"} :
          LedgerLock(arg, io)
    \/ \E io \in {"ok", "path", "remove"} : LedgerUnlock(io)
    \/ \E io \in {"ok", "path", "read"} : LedgerIsLocked(io)

SpecLedger == LedgerInit /\ [][LedgerNext]_vars

\* ---- The credential functions called directly (password.go as a library)

\* passwords given to HashPassword and VerifyPassword
CredPasswords == {<<>>, <<97>>}
\* salts rand.Read returns to HashPassword
CredSalts == {Salt(1), Salt(2)}

\* encoded strings that HashPassword has not made (password_test.go)
TooFewFields == <<"$", "a", "r", "g", "o", "n", "2", "i", "d", "$", "v", "=", "1", "9", "$", "m", "=", "1", "9", "4", "5", "6">>
WrongAlgorithm ==
    <<"$", "b", "c", "r", "y", "p", "t", "$", "v", "=", "1", "9", "$", "m", "=", "1", "9", "4", "5", "6", ",", "t", "=", "2", ",", "p", "=", "1", "$", "c", "2", "F", "s", "d", "A", "$", "a", "G", "F", "z", "a", "A">>
BadSaltBase64 ==
    <<"$", "a", "r", "g", "o", "n", "2", "i", "d", "$", "v", "=", "1", "9", "$", "m", "=", "1", "9", "4", "5", "6", ",", "t", "=", "2", ",", "p", "=", "1", "$", "!", "!", "!", "$", "a", "G", "F", "z", "a", "A">>
BadHashBase64 ==
    <<"$", "a", "r", "g", "o", "n", "2", "i", "d", "$", "v", "=", "1", "9", "$", "m", "=", "1", "9", "4", "5", "6", ",", "t", "=", "2", ",", "p", "=", "1", "$", "c", "2", "F", "s", "d", "A", "$", "!", "!", "!">>
Malformed ==
    {EmptyString, TooFewFields, WrongAlgorithm, BadSaltBase64, BadHashBase64}

\* the encoding of a password hashed under cost parameters c = <<t, m, p>>
EncodedUnder(password, salt, c) ==
    Sprintf(argon2Version, c[2], c[1], c[3], B64Encode(salt),
            B64Encode(IDKey(password, salt, c[1], c[2], c[3], argon2KeyLen)))
\* cost parameters other than the constants of this build
OtherCost == <<3, 65536, 4>>
\* encodings that a build with other cost parameters has left behind
Legacy == {EncodedUnder(p, Salt(1), OtherCost) : p \in CredPasswords \ {<<>>}}

CallHash(password, salt, ret) ==
    [fn |-> "HashPassword", perm |-> 0, err |-> Nil, password |-> password,
     salt |-> salt, ret |-> ret]
CallVerify(password, encoded, r) ==
    [fn |-> "VerifyPassword", perm |-> 0, err |-> r.err, password |-> password,
     encoded |-> encoded, ret |-> r.valid]

\* the strings the HashPassword calls of the log have returned
Hashed(log) == {log[i].ret : i \in {j \in DOMAIN log : log[j].fn = "HashPassword"}}

CredInit ==
    /\ NoProcess
    /\ passwd = NoPasswd
    /\ ledger = NoLedger
    /\ sockMode \in InitModes
    /\ now = 0
    /\ calls = <<>>

CredHash(password, salt) ==
    /\ Len(calls) < MaxCalls
    /\ calls' = Append(calls, CallHash(password, salt, HashPassword(password, salt)))
    /\ UNCHANGED <<passwd, ledger, sockMode, now, pc, cmd, tmuxEnv, socketProtect,
                   mode, socketPath, originalPerm, defers, size, inputBuffer,
                   attempt, retErr, stdout, unlocked, startMode, killed,
                   events, polled, poller,
                   visualState, idle>>

CredVerify(password, encoded) ==
    /\ Len(calls) < MaxCalls
    /\ calls' = Append(calls, CallVerify(password, encoded,
                                         VerifyPassword(password, encoded)))
    /\ UNCHANGED <<passwd, ledger, sockMode, now, pc, cmd, tmuxEnv, socketProtect,
                   mode, socketPath, originalPerm, defers, size, inputBuffer,
                   attempt, retErr, stdout, unlocked, startMode, killed,
                   events, polled, poller,
                   visualState, idle>>

CredNext ==
    \/ \E p \in CredPasswords, salt \in CredSalts : CredHash(p, salt)
    \/ \E p \in CredPasswords, e \in Hashed(calls) : CredVerify(p, e)
    \/ \E p \in CredPasswords, e \in Malformed \cup Legacy : CredVerify(p, e)

SpecCred == CredInit /\ [][CredNext]_vars

\* ---- The secure input buffer called directly (input.go as a library)

\* bytes given to Append: NUL, the second bytes of two markers, and a letter
InputBytes == {0, 1, 4, 97}

CallBackspace(ret) == [fn |-> "Backspace", perm |-> 0, err |-> Nil, ret |-> ret]
CallSuffix(data, r) ==
    [fn |-> "IsArrowMarkerSuffix", perm |-> 0, err |-> Nil, data |-> data,
     ret |-> <<r.isArrow, r.n>>]

InputInit ==
    /\ NoProcess
    /\ passwd = NoPasswd
    /\ ledger = NoLedger
    /\ sockMode \in InitModes
    /\ now = 0
    /\ calls = <<>>

\* sb.Append([]byte{b})
InputAppend(b) ==
    /\ inputBuffer.len < MaxBuf
    /\ inputBuffer' = SbAppend(inputBuffer, <<b>>)
    /\ UNCHANGED <<passwd, ledger, sockMode, now, pc, cmd, tmuxEnv, socketProtect,
                   mode, socketPath, originalPerm, defers, size, attempt, retErr,
                   stdout, calls, unlocked, startMode, killed,
                   events, polled, poller,
                   visualState, idle>>

\* sb.AppendString(ArrowKeyMarker(key))
InputArrow(key) ==
    /\ inputBuffer.len < MaxBuf
    /\ inputBuffer' = AppendString(inputBuffer, ArrowKeyMarker(key))
    /\ UNCHANGED <<passwd, ledger, sockMode, now, pc, cmd, tmuxEnv, socketProtect,
                   mode, socketPath, originalPerm, defers, size, attempt, retErr,
                   stdout, calls, unlocked, startMode, killed,
                   events, polled, poller,
                   visualState, idle>>

\* sb.Backspace(); the log holds the last call and what it returned
InputBackspace ==
    /\ inputBuffer' = Backspace(inputBuffer).sb
    /\ calls' = <<CallBackspace(Backspace(inputBuffer).removed)>>
    /\ UNCHANGED <<passwd, ledger, sockMode, now, pc, cmd, tmuxEnv, socketProtect,
                   mode, socketPath, originalPerm, defers, size, attempt, retErr,
                   stdout, unlocked, startMode, killed, events, polled, poller,
                   visualState, idle>>

\* IsArrowMarkerSuffix(sb.data)
InputIsArrowMarkerSuffix ==
    /\ calls' = <<CallSuffix(Data(inputBuffer),
                             IsArrowMarkerSuffix(Data(inputBuffer)))>>
    /\ UNCHANGED <<passwd, ledger, sockMode, now, pc, cmd, tmuxEnv, socketProtect,
                   mode, socketPath, originalPerm, defers, size, inputBuffer,
                   attempt, retErr, stdout, unlocked, startMode, killed,
                   events, polled, poller,
                   visualState, idle>>

InputNext ==
    \/ \E b \in InputBytes : InputAppend(b)
    \/ \E key \in ArrowKeys : InputArrow(key)
    \/ InputBackspace
    \/ InputIsArrowMarkerSuffix

SpecInput == InputInit /\ [][InputNext]_vars

\* ---- A SecureBuffer through a sequence of its methods (input.go)

\* longest sequence of method calls on the buffer
MaxOps == 4
\* runes given to AppendRune: two letters of one byte and one of two bytes
BufferRunes == {97, 98, 233}

CallOp(fn, arg, ret) == [fn |-> fn, perm |-> 0, err |-> Nil, arg |-> arg, ret |-> ret]

BufferInit ==
    /\ NoProcess
    /\ passwd = NoPasswd
    /\ ledger = NoLedger
    /\ sockMode \in InitModes
    /\ now = 0
    /\ calls = <<>>

\* sb.AppendRune(r)
BufferAppendRune(r) ==
    /\ Len(calls) < MaxOps
    /\ inputBuffer' = AppendRune(inputBuffer, r)
    /\ calls' = Append(calls, CallOp("AppendRune", r, TRUE))
    /\ UNCHANGED <<passwd, ledger, sockMode, now, pc, cmd, tmuxEnv, socketProtect,
                   mode, socketPath, originalPerm, defers, size, attempt, retErr,
                   stdout, unlocked, startMode, killed, events, polled, poller,
                   visualState, idle>>

\* sb.AppendString(ArrowKeyMarker(key))
BufferAppendString(key) ==
    /\ Len(calls) < MaxOps
    /\ inputBuffer' = AppendString(inputBuffer, ArrowKeyMarker(key))
    /\ calls' = Append(calls, CallOp("AppendString", key, TRUE))
    /\ UNCHANGED <<passwd, ledger, sockMode, now, pc, cmd, tmuxEnv, socketProtect,
                   mode, socketPath, originalPerm, defers, size, attempt, retErr,
                   stdout, unlocked, startMode, killed, events, polled, poller,
                   visualState, idle>>

\* sb.Backspace()
BufferBackspace ==
    /\ Len(calls) < MaxOps
    /\ inputBuffer' = Backspace(inputBuffer).sb
    /\ calls' = Append(calls, CallOp("Backspace", 0, Backspace(inputBuffer).removed))
    /\ UNCHANGED <<passwd, ledger, sockMode, now, pc, cmd, tmuxEnv, socketProtect,
                   mode, socketPath, originalPerm, defers, size, attempt, retErr,
                   stdout, unlocked, startMode, killed, events, polled, poller,
                   visualState, idle>>

\* sb.Clear()
BufferClear ==
    /\ Len(calls) < MaxOps
    /\ inputBuffer' = Clear(inputBuffer)
    /\ calls' = Append(calls, CallOp("Clear", 0, TRUE))
    /\ UNCHANGED <<passwd, ledger, sockMode, now, pc, cmd, tmuxEnv, socketProtect,
                   mode, socketPath, originalPerm, defers, size, attempt, retErr,
                   stdout, unlocked, startMode, killed, events, polled, poller,
                   visualState, idle>>

\* sb.Destroy()
BufferDestroy ==
    /\ Len(calls) < MaxOps
    /\ inputBuffer' = Destroy(inputBuffer)
    /\ calls' = Append(calls, CallOp("Destroy", 0, TRUE))
    /\ UNCHANGED <<passwd, ledger, sockMode, now, pc, cmd, tmuxEnv, socketProtect,
                   mode, socketPath, originalPerm, defers, size, attempt, retErr,
                   stdout, unlocked, startMode, killed, events, polled, poller,
                   visualState, idle>>

BufferNext ==
    \/ \E r \in BufferRunes : BufferAppendRune(r)
    \/ \E key \in {"KeyUp", "KeyRight"} : BufferAppendString(key)
    \/ BufferBackspace
    \/ BufferClear
    \/ BufferDestroy

SpecBuffer == BufferInit /\ [][BufferNext]_vars

\* ---- readPasswordWithArrows called directly (main.go)

\* most keys typed before the key that ends the entry
MaxKeys == 3
\* runes of the KeyRune events typed: a, and the letters U+0100 and U+0101
ReadRunes == {97, 256, 257}
\* the events PollEvent returns before the one that ends the entry
ReadKeys ==
    {KeyEvent("KeyRune", r) : r \in ReadRunes}
        \cup {KeyEvent("KeyUp", 0), KeyEvent("KeyBackspace", 0), OtherEvent}
ReadEnds == {KeyEvent(k, 0) : k \in {"KeyEnter", "KeyEscape", "KeyCtrlC"}}

\* byte(r): the low eight bits of the rune
ByteOf(r) == r % 256

\* the password slice without its last unit (the array is not written)
handlePasswordBackspace(password) ==
    IF password.len >= 2
    THEN IF SubSeq(Data(password), password.len - 1, password.len)
              \in {ArrowUpMarker, ArrowDownMarker, ArrowLeftMarker, ArrowRightMarker}
         THEN [password EXCEPT !.len = password.len - 2]
         ELSE [password EXCEPT !.len = password.len - 1]
    ELSE [password EXCEPT !.len = password.len - 1]

\* one turn of the loop of readPasswordWithArrows for an event that does not
\* end the entry.  password: the slice as its array and length; append stays
\* within the 8 bytes the first append allocates
readKey(password, ev) ==
    CASE ev.t # "key" -> password
      [] ev.key \in {"KeyBackspace", "KeyBackspace2"} ->
            IF password.len = 0 THEN password ELSE handlePasswordBackspace(password)
      [] ev.key \in ArrowKeys -> SbAppend(password, ArrowKeyMarker(ev.key))
      [] ev.key = "KeyRune" -> SbAppend(password, <<ByteOf(ev.rune)>>)
      [] OTHER -> password

\* the loop of readPasswordWithArrows over the events PollEvent returns, the
\* last of which ends the entry.  Result: the returned slice, the error, and
\* the array the entry was built in as it is left
RECURSIVE readLoop(_, _)
readLoop(password, keys) ==
    LET ev == Head(keys)
    IN  CASE ev.t = "key" /\ ev.key = "KeyEnter" ->
                [pw |-> Data(password), err |-> Nil, mem |-> password.mem]
          [] ev.t = "key" /\ ev.key = "KeyEscape" ->
                [pw |-> <<>>, err |-> Nil, mem |-> Clear(password).mem]
          [] ev.t = "key" /\ ev.key = "KeyCtrlC" ->
                [pw |-> <<>>, err |-> Err("interrupted"), mem |-> Clear(password).mem]
          [] OTHER -> readLoop(readKey(password, ev), Tail(keys))

\* io: "ok", or "screen" (tcell.NewScreen or Init fails)
readPasswordWithArrows(io, keys) ==
    IF io = "screen"
    THEN [pw |-> <<>>, err |-> Err("terminal not set"), mem |-> <<>>]
    ELSE readLoop(NewSecureBuffer, keys)

\* the key sequences typed: up to MaxKeys keys and the key that ends the entry
Typed ==
    UNION {[1..n -> ReadKeys] : n \in 0..MaxKeys}
CallRead(io, keys, r) ==
    [fn |-> "readPasswordWithArrows", perm |-> 0, err |-> r.err, io |-> io,
     keys |-> keys, ret |-> r.pw, mem |-> r.mem]

ReadInit ==
    /\ NoProcess
    /\ passwd = NoPasswd
    /\ ledger = NoLedger
    /\ sockMode \in InitModes
    /\ now = 0
    /\ calls = <<>>

\* the one call of readPasswordWithArrows a password entry makes
ReadPassword(io, keys) ==
    /\ calls = <<>>
    /\ calls' = <<CallRead(io, keys, readPasswordWithArrows(io, keys))>>
    /\ UNCHANGED <<passwd, ledger, sockMode, now, pc, cmd, tmuxEnv, socketProtect,
                   mode, socketPath, originalPerm, defers, size, inputBuffer,
                   attempt, retErr, stdout, unlocked, startMode, killed,
                   events, polled, poller,
                   visualState, idle>>

ReadNext ==
    \E io \in {"ok", "screen"}, typed \in Typed, end \in ReadEnds :
        ReadPassword(io, Append(typed, end))

SpecRead == ReadInit /\ [][ReadNext]_vars

\* ---- GetTmuxSocketPath called directly (socket.go as a library)

\* values of TMUX (socket.go, TestGetTmuxSocketPath): unset, empty, a path
\* with pid and session, with spaces, with no comma, with a trailing comma,
\* an empty path, only commas
SpacedPath == <<"a", " ", "b">>
Descriptors ==
    { Unset,
      EnvOf(<<>>),
      EnvOf(<<"s", ",", "1", ",", "0">>),
      EnvOf(SpacedPath \o <<",", "1", ",", "0">>),
      EnvOf(<<"s">>),
      EnvOf(<<"s", ",">>),
      EnvOf(<<",", "1">>),
      EnvOf(<<",", ",", ",">>) }

CallGet(env, r) ==
    [fn |-> "GetTmuxSocketPath", perm |-> 0, err |-> r.err, env |-> env,
     ret |-> r.path]

SocketInit ==
    /\ NoProcess
    /\ passwd = NoPasswd
    /\ ledger = NoLedger
    /\ sockMode \in InitModes
    /\ now = 0
    /\ calls = <<>>

\* GetTmuxSocketPath() in an environment where TMUX is env
SocketGetPath(env) ==
    /\ Len(calls) < MaxCalls
    /\ calls' = Append(calls, CallGet(env, GetTmuxSocketPath(env)))
    /\ UNCHANGED <<passwd, ledger, sockMode, now, pc, cmd, tmuxEnv, socketProtect,
                   mode, socketPath, originalPerm, defers, size, inputBuffer,
                   attempt, retErr, stdout, unlocked, startMode, killed,
                   events, polled, poller,
                   visualState, idle>>

SocketNext == \E env \in Descriptors : SocketGetPath(env)

SpecSocket == SocketInit /\ [][SocketNext]_vars

\* ---- The key handlers of the normal and the playground mode (main.go)

\* the key events given to the handlers
KeyEvents ==
    {KeyEvent(k, 0) : k \in Keys \ {"KeyRune"}} \cup {KeyEvent("KeyRune", 97)}
\* widths of the screen, and flames at, between and next to the clamps
Widths == {14, 80}
Flames ==
    {[heatPower |-> p, heatSources |-> n] :
        p \in {minHeat, defaultHeatPower, maxHeat - 1, maxHeat},
        n \in {minSources, 80 \div heatSourceDivisor, 14}}

CallKey(m, ev, flame, w, act, after) ==
    [fn |-> "handleKey", perm |-> 0, err |-> Nil, mode |-> m, ev |-> ev,
     flame |-> flame, w |-> w, ret |-> act, after |-> after]

KeysInit ==
    /\ NoProcess
    /\ passwd = NoPasswd
    /\ ledger = NoLedger
    /\ sockMode \in InitModes
    /\ now = 0
    /\ calls = <<>>

\* handleKey in normal mode on a screensaver with the given flame and width;
\* the log holds the last call
KeysNormal(ev, flame, w) ==
    /\ flame.heatSources <= w
    /\ calls' = <<CallKey(ModeNormal, ev, flame, w,
                          handleKey(ev, ModeNormal, NewSecureBuffer, <<>>,
                                    NoPasswd).act,
                          handleKeyNormalFlame(ev, flame, w))>>
    /\ UNCHANGED <<passwd, ledger, sockMode, now, pc, cmd, tmuxEnv, socketProtect,
                   mode, socketPath, originalPerm, defers, size, inputBuffer,
                   attempt, retErr, stdout, unlocked, startMode, killed,
                   events, polled, poller,
                   visualState, idle>>

\* handleKey in playground mode (its flame follows fire.VisualState)
KeysPlayground(ev) ==
    /\ calls' = <<[fn |-> "handleKey", perm |-> 0, err |-> Nil,
                   mode |-> ModePlayground, ev |-> ev,
                   ret |-> handleKey(ev, ModePlayground, NewSecureBuffer, <<>>,
                                     NoPasswd).act]>>
    /\ UNCHANGED <<passwd, ledger, sockMode, now, pc, cmd, tmuxEnv, socketProtect,
                   mode, socketPath, originalPerm, defers, size, inputBuffer,
                   attempt, retErr, stdout, unlocked, startMode, killed,
                   events, polled, poller,
                   visualState, idle>>

KeysNext ==
    \/ \E ev \in KeyEvents, flame \in Flames, w \in Widths : KeysNormal(ev, flame, w)
    \/ \E ev \in KeyEvents : KeysPlayground(ev)

SpecKeys == KeysInit /\ [][KeysNext]_vars

\* ---- pollEvents, the channel and processEvents (main.go)

\* number of events PollEvent returns: enough to fill the channel while the
\* loop renders a frame
MaxPolled == 12

\* ch <- ev on a channel that has room
ChanSend(ch, ev) == Append(ch, ev)
\* a receive that takes the newest event of the channel
ChanRecv_Newest(ch) == [ev |-> ch[Len(ch)], ch |-> SubSeq(ch, 1, Len(ch) - 1)]
\* <-ch on a channel that is not empty: the oldest event, and the channel after
ChanRecv(ch) == [ev |-> Head(ch), ch |-> Tail(ch)]

\* what PollEvent returns next: the n-th letter, or (once) Escape
Letter(n) == KeyEvent("KeyRune", 96 + n)
Escape == KeyEvent("KeyEscape", 0)
NextEvents ==
    {Letter(Len(polled) + 1)}
        \cup (IF \E i \in DOMAIN polled : polled[i] = Escape THEN {} ELSE {Escape})

CallHandle(ev, act) ==
    [fn |-> "handleEvent", perm |-> 0, err |-> Nil, ev |-> ev, ret |-> act]

\* run() has started pollEvents and is at its first processEvents
QueueInit ==
    /\ passwd = PasswdOf(HashPassword(<<97>>, Salt(1)))
    /\ ledger = NoLedger
    /\ sockMode \in InitModes
    /\ now = 0
    /\ pc = "loop"
    /\ cmd = "run"
    /\ tmuxEnv = Unset
    /\ socketProtect = FALSE
    /\ mode \in Modes
    /\ socketPath = <<>>
    /\ originalPerm = 0
    /\ defers = <<"close">>
    /\ size = <<80, 24>>
    /\ inputBuffer = NewSecureBuffer
    /\ attempt = <<>>
    /\ retErr = Nil
    /\ stdout = NoOutput
    /\ calls = <<>>
    /\ unlocked = FALSE
    /\ startMode = sockMode
    /\ killed = FALSE
    /\ events = <<>>
    /\ polled = <<>>
    /\ poller = [pc |-> "poll", ev |-> <<>>]
    /\ visualState = NoVisual
    /\ idle = NoIdle

\* pollEvents: ev := s.screen.PollEvent() returns an event
QueuePoll(ev) ==
    /\ poller.pc = "poll"
    /\ defers # <<>>
    /\ Len(polled) < MaxPolled
    /\ polled' = Append(polled, ev)
    /\ poller' = [pc |-> "send", ev |-> <<ev>>]
    /\ UNCHANGED <<passwd, ledger, sockMode, now, pc, cmd, tmuxEnv, socketProtect,
                   mode, socketPath, originalPerm, defers, size, inputBuffer,
                   attempt, retErr, stdout, calls, unlocked, startMode, killed,
                   events,
                   visualState, idle>>

\* pollEvents: PollEvent returns nil after screen.Fini(), the goroutine returns
QueuePollNil ==
    /\ poller.pc = "poll"
    /\ defers = <<>>
    /\ poller' = [pc |-> "done", ev |-> <<>>]
    /\ UNCHANGED <<passwd, ledger, sockMode, now, pc, cmd, tmuxEnv, socketProtect,
                   mode, socketPath, originalPerm, defers, size, inputBuffer,
                   attempt, retErr, stdout, calls, unlocked, startMode, killed,
                   events, polled,
                   visualState, idle>>

\* pollEvents: s.events <- ev, which waits while the channel is full
QueueSend ==
    /\ poller.pc = "send"
    /\ Len(events) < chanCap
    /\ events' = ChanSend(events, poller.ev[1])
    /\ poller' = [pc |-> "poll", ev |-> <<>>]
    /\ UNCHANGED <<passwd, ledger, sockMode, now, pc, cmd, tmuxEnv, socketProtect,
                   mode, socketPath, originalPerm, defers, size, inputBuffer,
                   attempt, retErr, stdout, calls, unlocked, startMode, killed,
                   polled,
                   visualState, idle>>

\* processEvents: case ev := <-s.events, and handleEvent(ev)
QueueReceive ==
    /\ pc = "loop"
    /\ events # <<>>
    /\ LET c == ChanRecv(events)
           r == handleEvent(c.ev, mode, size, inputBuffer, attempt, passwd)
       IN  /\ events' = c.ch
           /\ calls' = Append(calls, CallHandle(c.ev, r.act))
           /\ size' = r.size
           /\ inputBuffer' = r.sb
           /\ attempt' = r.att
           /\ pc' = IF r.act = actionExit THEN "return" ELSE "loop"
           /\ unlocked' = (mode = ModeLock /\ c.ev.t = "key" /\ r.act = actionExit)
    /\ UNCHANGED <<passwd, ledger, sockMode, now, cmd, tmuxEnv, socketProtect,
                   mode, socketPath, originalPerm, defers, retErr, stdout,
                   startMode, killed, polled, poller,
                   visualState, idle>>

\* processEvents: the default case of the select, taken when the channel is
\* empty: processEvents returns false and run() goes on to the frame
QueueDefault ==
    /\ pc = "loop"
    /\ events = <<>>
    /\ pc' = "frame"
    /\ UNCHANGED <<passwd, ledger, sockMode, now, cmd, tmuxEnv, socketProtect,
                   mode, socketPath, originalPerm, defers, size, inputBuffer,
                   attempt, retErr, stdout, calls, unlocked, startMode, killed,
                   events, polled, poller,
                   visualState, idle>>

\* run(): updateVisualState, renderFrame, Sleep(frameDelay), and the loop again
QueueFrame ==
    /\ pc = "frame"
    /\ pc' = "loop"
    /\ UNCHANGED <<passwd, ledger, sockMode, now, cmd, tmuxEnv, socketProtect,
                   mode, socketPath, originalPerm, defers, size, inputBuffer,
                   attempt, retErr, stdout, calls, unlocked, startMode, killed,
                   events, polled, poller,
                   visualState, idle>>

QueueNext ==
    \/ \E ev \in NextEvents : QueuePoll(ev)
    \/ QueuePollNil
    \/ QueueSend
    \/ QueueReceive
    \/ QueueDefault
    \/ QueueFrame
    \/ DeferClose

SpecQueue == QueueInit /\ [][QueueNext]_vars

\* ---- The git ticker text (main.go)

\* the commit lines of a log at most
MaxLines == 3

\* strings.SplitN(s, sep, n) for a one-character separator and n >= 1
RECURSIVE SplitN(_, _, _)
SplitN(s, sep, n) ==
    LET i == IndexFrom(s, sep, 1)
    IN  IF n <= 1 \/ i = 0 THEN <<s>>
        ELSE <<SubSeq(s, 1, i - 1)>> \o SplitN(SubSeq(s, i + 1, Len(s)), sep, n - 1)

\* strings.Join(segs, "")
RECURSIVE Join(_)
Join(segs) == IF segs = <<>> THEN <<>> ELSE Head(segs) \o Join(Tail(segs))

Repeat(c, n) == [i \in 1..n |-> c]

max(a, b) == IF a > b THEN a ELSE b

padRight(s, n) == IF Len(s) >= n THEN s ELSE s \o Repeat(" ", n - Len(s))

NoSegs == [msg |-> <<>>, meta |-> <<>>]

\* one turn of the loop over the lines: a line is trimmed, an empty one and one
\* that does not split into four parts are skipped
tickerLine_Untrimmed(line, segs) ==
    LET parts == SplitN(line, "\t", 4)
    IN  IF line = <<>> \/ Len(parts) # 4 THEN segs
        ELSE LET meta  == <<"b", "y", " ">> \o parts[2] \o <<" ">> \o parts[3]
                 width == max(Len(parts[4]), Len(meta)) + 4
             IN  [msg  |-> Append(segs.msg, padRight(parts[4], width)),
                  meta |-> Append(segs.meta, padRight(meta, width))]

tickerLine(line, segs) == tickerLine_Untrimmed(TrimSpace(line), segs)

RECURSIVE tickerLines(_, _)
tickerLines(lines, segs) ==
    IF lines = <<>> THEN segs
    ELSE tickerLines(Tail(lines), tickerLine(Head(lines), segs))

parseGitLogToTicker(logOutput) ==
    LET segs == tickerLines(Split(TrimSpace(logOutput), "\n"), NoSegs)
    IN  IF Len(segs.msg) = 0
        THEN [msg |-> <<>>, meta |-> <<>>, ok |-> FALSE]
        ELSE [msg |-> Join(segs.msg), meta |-> Join(segs.meta), ok |-> TRUE]

\* the lines of a log: commits of two authors, a commit with an empty subject,
\* a subject with a tab in it, a line of three fields, an indented line, a word
\* and an empty line
LogLines ==
    {<<"h", "\t", "A", "\t", "1", "\t", "s">>,
     <<"h", "\t", "B", "\t", "2", "\t", "u", "v">>,
     <<"h", "\t", "A", "\t", "1", "\t">>,
     <<"h", "\t", "A", "\t", "1", "\t", "s", "\t", "u">>,
     <<"h", "\t", "A", "\t", "1">>,
     <<" ", "h", "\t", "B", "\t", "2", "\t", "u">>,
     <<"h">>,
     <<>>}

\* the log made of the lines, each ended by a newline or only separated by one
RECURSIVE LogOf(_, _)
LogOf(lines, ended) ==
    IF lines = <<>> THEN <<>>
    ELSE Head(lines)
         \o (IF Len(lines) > 1 \/ ended THEN <<"\n">> ELSE <<>>)
         \o LogOf(Tail(lines), ended)

TickerInit ==
    /\ NoProcess
    /\ passwd = NoPasswd
    /\ ledger = NoLedger
    /\ sockMode \in InitModes
    /\ now = 0
    /\ calls = <<>>

\* the one call of parseGitLogToTicker a run makes
TickerParse(lines, ended) ==
    /\ calls = <<>>
    /\ calls' = <<[fn |-> "parseGitLogToTicker", lines |-> lines,
                   log |-> LogOf(lines, ended),
                   ret |-> parseGitLogToTicker(LogOf(lines, ended))]>>
    /\ UNCHANGED <<passwd, ledger, sockMode, now, pc, cmd, tmuxEnv, socketProtect,
                   mode, socketPath, originalPerm, defers, size, inputBuffer,
                   attempt, retErr, stdout, unlocked, startMode, killed,
                   events, polled, poller,
                   visualState, idle>>

TickerNext ==
    \E n \in 0..MaxLines, ended \in BOOLEAN :
        \E lines \in [1..n -> LogLines] : TickerParse(lines, ended)

SpecTicker == TickerInit /\ [][TickerNext]_vars

\* ---- The visual state of the interactive modes (fire/visual.go, main.go)

\* frames counted since the last key press at most
MaxFrames == 50

BaseHeatPower == 50
BurstHeat == 15
MaxBurstHeat == 40
DefaultCooldownRate == 2
DefaultCooldownDelay == 5

CooldownPresets ==
    [fast   |-> [Rate |-> 4, Delay |-> 3],
     medium |-> [Rate |-> 2, Delay |-> 5],
     slow   |-> [Rate |-> 1, Delay |-> 8]]

\* values of the --cooldown flag: the three presets and a name that is none
CooldownSpeeds == {"fast", "medium", "slow", "turbo"}

NewVisualState ==
    [CurrentBurst |-> 0, FramesSinceInput |-> 0,
     CooldownRate |-> DefaultCooldownRate, CooldownDelay |-> DefaultCooldownDelay]

NewVisualStateWithPreset(preset) ==
    IF preset \in DOMAIN CooldownPresets
    THEN [NewVisualState EXCEPT !.CooldownRate = CooldownPresets[preset].Rate,
                                !.CooldownDelay = CooldownPresets[preset].Delay]
    ELSE NewVisualState

\* OnKeyPress without the cap at MaxBurstHeat
OnKeyPress_NoCap(vs) ==
    [vs EXCEPT !.CurrentBurst = vs.CurrentBurst + BurstHeat,
               !.FramesSinceInput = 0]

OnKeyPress(vs) ==
    [vs EXCEPT !.CurrentBurst = IF vs.CurrentBurst + BurstHeat > MaxBurstHeat
                                THEN MaxBurstHeat
                                ELSE vs.CurrentBurst + BurstHeat,
               !.FramesSinceInput = 0]

\* OnFrame that starts the cooldown one frame early
OnFrame_OneFrameEarly(vs) ==
    IF vs.FramesSinceInput + 1 >= vs.CooldownDelay
    THEN [vs EXCEPT !.FramesSinceInput = vs.FramesSinceInput + 1,
                    !.CurrentBurst = IF vs.CurrentBurst - vs.CooldownRate < 0
                                     THEN 0
                                     ELSE vs.CurrentBurst - vs.CooldownRate]
    ELSE [vs EXCEPT !.FramesSinceInput = vs.FramesSinceInput + 1]

OnFrame(vs) ==
    IF vs.FramesSinceInput + 1 > vs.CooldownDelay
    THEN [vs EXCEPT !.FramesSinceInput = vs.FramesSinceInput + 1,
                    !.CurrentBurst = IF vs.CurrentBurst - vs.CooldownRate < 0
                                     THEN 0
                                     ELSE vs.CurrentBurst - vs.CooldownRate]
    ELSE [vs EXCEPT !.FramesSinceInput = vs.FramesSinceInput + 1]

EffectiveHeatPower(vs) == BaseHeatPower + vs.CurrentBurst

Reset(vs) == [vs EXCEPT !.CurrentBurst = 0, !.FramesSinceInput = 0]

VisualInit ==
    /\ NoProcess
    /\ passwd = NoPasswd
    /\ ledger = NoLedger
    /\ sockMode \in InitModes
    /\ now = 0
    /\ calls = <<>>

\* newScreensaver in an interactive mode: the visual state of the preset
VisualNew(preset) ==
    /\ visualState = NoVisual
    /\ visualState' = <<NewVisualStateWithPreset(preset)>>
    /\ UNCHANGED <<passwd, ledger, sockMode, now, pc, cmd, tmuxEnv, socketProtect,
                   mode, socketPath, originalPerm, defers, size, inputBuffer,
                   attempt, retErr, stdout, calls, unlocked, startMode, killed,
                   events, polled, poller, idle>>

\* handleKey: s.visualState.OnKeyPress()
VisualKeyPress ==
    /\ visualState # NoVisual
    /\ visualState' = <<OnKeyPress(visualState[1])>>
    /\ UNCHANGED <<passwd, ledger, sockMode, now, pc, cmd, tmuxEnv, socketProtect,
                   mode, socketPath, originalPerm, defers, size, inputBuffer,
                   attempt, retErr, stdout, calls, unlocked, startMode, killed,
                   events, polled, poller, idle>>

\* updateVisualState: s.visualState.OnFrame(), once per frame of run()
VisualFrame ==
    /\ visualState # NoVisual
    /\ visualState[1].FramesSinceInput < MaxFrames
    /\ visualState' = <<OnFrame(visualState[1])>>
    /\ UNCHANGED <<passwd, ledger, sockMode, now, pc, cmd, tmuxEnv, socketProtect,
                   mode, socketPath, originalPerm, defers, size, inputBuffer,
                   attempt, retErr, stdout, calls, unlocked, startMode, killed,
                   events, polled, poller, idle>>

VisualReset ==
    /\ visualState # NoVisual
    /\ visualState' = <<Reset(visualState[1])>>
    /\ UNCHANGED <<passwd, ledger, sockMode, now, pc, cmd, tmuxEnv, socketProtect,
                   mode, socketPath, originalPerm, defers, size, inputBuffer,
                   attempt, retErr, stdout, calls, unlocked, startMode, killed,
                   events, polled, poller, idle>>

VisualNext ==
    \/ \E preset \in CooldownSpeeds : VisualNew(preset)
    \/ VisualKeyPress
    \/ VisualFrame
    \/ VisualReset

SpecVisual == VisualInit /\ [][VisualNext]_vars

\* run() renders frame after frame: the frame step is taken again and again
SpecVisualFair == SpecVisual /\ WF_vars(VisualFrame)

\* ---- The idle watcher (main.go)

\* polls of the idle time at most
MaxPolls == 4

defaultIdleTimeout == 300
pollInterval == 5

\* time.Now().Unix() when the watcher starts
IdleEpoch == 2 * defaultIdleTimeout

IsDigit(c) == \E d \in DOMAIN Digits : Digits[d] = c
DigitOf(c) == (CHOOSE d \in DOMAIN Digits : Digits[d] = c) - 1

RECURSIVE DigitsValue(_)
DigitsValue(str) ==
    IF str = <<>> THEN 0
    ELSE DigitsValue(SubSeq(str, 1, Len(str) - 1)) * 10 + DigitOf(str[Len(str)])

\* strconv.ParseInt(str, 10, 64) for a text without a sign
ParseInt(str) ==
    IF str = <<>> \/ \E i \in DOMAIN str : ~IsDigit(str[i])
    THEN [n |-> 0, err |-> Err("invalid syntax")]
    ELSE [n |-> DigitsValue(str), err |-> Nil]

\* out: what `tmux display-message -p #{client_activity}` gives, io = "exec"
\* when the command fails; t: time.Now().Unix()
getClientIdleTime(out, t) ==
    IF out.io = "exec"
    THEN [sec |-> 0, err |-> Wrap("get client activity", Err("exit status 1"))]
    ELSE IF TrimSpace(out.text) = <<>>
    THEN [sec |-> 0, err |-> Err("empty activity timestamp")]
    ELSE IF ParseInt(TrimSpace(out.text)).err # Nil
    THEN [sec |-> 0,
          err |-> Wrap("parse activity timestamp", ParseInt(TrimSpace(out.text)).err)]
    ELSE [sec |-> max(t - ParseInt(TrimSpace(out.text)).n, 0), err |-> Nil]

\* a tick that triggers without waiting for activity afterwards
idleTick_KeepsTriggering(waiting, timeout, r) ==
    IF r.err # Nil THEN [waiting |-> waiting, trigger |-> FALSE]
    ELSE IF waiting THEN [waiting |-> ~(r.sec < timeout), trigger |-> FALSE]
    ELSE [waiting |-> FALSE, trigger |-> r.sec >= timeout]

\* execIdle, case <-ticker.C, after getClientIdleTime has returned r: the
\* waiting flag afterwards and whether triggerScreensaver is called
idleTick(waiting, timeout, r) ==
    IF r.err # Nil THEN [waiting |-> waiting, trigger |-> FALSE]
    ELSE IF waiting THEN [waiting |-> ~(r.sec < timeout), trigger |-> FALSE]
    ELSE IF r.sec >= timeout THEN [waiting |-> TRUE, trigger |-> TRUE]
    ELSE [waiting |-> FALSE, trigger |-> FALSE]

CallIdle(r) == [fn |-> "getClientIdleTime", perm |-> 0, err |-> r.err, ret |-> r.sec]
CallTrigger == [fn |-> "triggerScreensaver", perm |-> 0, err |-> Nil, ret |-> 0]

\* values of --timeout
Timeouts == {0, 2 * pollInterval, defaultIdleTimeout}

\* what tmux prints at time t for a watcher with the given timeout: nothing, a
\* word, and the time of an activity that is now, one second short of the
\* timeout ago, the timeout ago, and ahead of the clock
ActivityOutputs(t, timeout) ==
    {[io |-> "exec", text |-> <<>>], [io |-> "ok", text |-> <<"\n">>],
     [io |-> "ok", text |-> <<"x", "\n">>]}
      \cup {[io |-> "ok", text |-> Itoa(a) \o <<"\n">>] :
               a \in {t, t - timeout + 1, t - timeout, t + 7}}

IdleInit ==
    /\ NoProcess
    /\ passwd = NoPasswd
    /\ ledger = NoLedger
    /\ sockMode \in InitModes
    /\ now = IdleEpoch
    /\ calls = <<>>

\* execIdle up to its loop
IdleStart(once, timeout, env) ==
    /\ idle.pc = "none"
    /\ tmuxEnv' = env
    /\ IF once
       THEN /\ calls' = Append(calls, CallTrigger)
            /\ retErr' = Nil
            /\ idle' = [pc |-> "done", timeout |-> timeout, waiting |-> FALSE]
       ELSE IF Getenv(env) = <<>>
       THEN /\ retErr' = Err("not running inside tmux")
            /\ idle' = [pc |-> "done", timeout |-> timeout, waiting |-> FALSE]
            /\ UNCHANGED calls
       ELSE /\ idle' = [pc |-> "loop", timeout |-> timeout, waiting |-> FALSE]
            /\ UNCHANGED <<calls, retErr>>
    /\ UNCHANGED <<passwd, ledger, sockMode, now, pc, cmd, socketProtect,
                   mode, socketPath, originalPerm, defers, size, inputBuffer,
                   attempt, stdout, unlocked, startMode, killed,
                   events, polled, poller, visualState>>

\* execIdle: case <-ticker.C, pollInterval seconds after the last one
IdleTick(out) ==
    /\ idle.pc = "loop"
    /\ now < IdleEpoch + MaxPolls * pollInterval
    /\ now' = now + pollInterval
    /\ LET r == getClientIdleTime(out, now + pollInterval)
           t == idleTick(idle.waiting, idle.timeout, r)
       IN  /\ calls' = calls \o <<CallIdle(r)>>
                             \o (IF t.trigger THEN <<CallTrigger>> ELSE <<>>)
           /\ idle' = [idle EXCEPT !.waiting = t.waiting]
    /\ UNCHANGED <<passwd, ledger, sockMode, pc, cmd, tmuxEnv, socketProtect,
                   mode, socketPath, originalPerm, defers, size, inputBuffer,
                   attempt, retErr, stdout, unlocked, startMode, killed,
                   events, polled, poller, visualState>>

\* execIdle: case <-ctx.Done() after SIGINT or SIGTERM
IdleStop ==
    /\ idle.pc = "loop"
    /\ idle' = [idle EXCEPT !.pc = "done"]
    /\ retErr' = Nil
    /\ UNCHANGED <<passwd, ledger, sockMode, now, pc, cmd, tmuxEnv, socketProtect,
                   mode, socketPath, originalPerm, defers, size, inputBuffer,
                   attempt, stdout, calls, unlocked, startMode, killed,
                   events, polled, poller, visualState>>

IdleNext ==
    \/ \E once \in BOOLEAN, timeout \in Timeouts,
          env \in {Unset, EnvOf(<<"s", ",", "1", ",", "0">>)} :
            IdleStart(once, timeout, env)
    \/ \E out \in ActivityOutputs(now + pollInterval, idle.timeout) : IdleTick(out)
    \/ IdleStop

SpecIdle == IdleInit /\ [][IdleNext]_vars

\* ---- Properties

Range(f) == {f[i] : i \in DOMAIN f}
Enter == KeyEvent("KeyEnter", 0)
\* the calls of function fn the process has made
CallsOf(fn) == {c \in Range(calls) : c.fn = fn}
\* the process is at the point of returning to main, every deferred call done
Returning == pc = "return" /\ defers = <<>>
\* the record LoadState finds in the ledger file, when it finds one
HasRecord(file) == LoadState(file, "ok").err = Nil
Record(file) == LoadState(file, "ok").state
\* what a reader of the ledger can tell: the record, or that there is none
LedgerView(file) == IF HasRecord(file) THEN Record(file) ELSE ZeroState

\* run() returns in lock mode: out of its loop, or at once for an empty screen
LockLoopReturns ==
    /\ mode = ModeLock
    /\ pc' = "return"
    /\ \/ pc = "loop"
       \/ pc = "screen" /\ Len(defers') > Len(defers)
\* the step handles an Enter for which CheckPassword returns true and no error
AcceptedSubmission ==
    /\ pc = "loop"
    /\ CheckPassword(Bytes(inputBuffer), passwd) = [valid |-> TRUE, err |-> Nil]
    /\ ProcessEvent(Enter)

\* C1: in lock mode the render loop returns only by an Enter for which
\* CheckPassword returned true with no error: no other key, no resize and no
\* screen size makes it return.
C1_ReturnOnlyOnPassword == [][LockLoopReturns => AcceptedSubmission]_vars

\* C2: during the release of a lock episode with socket protection after a
\* successful verification, the ledger record is never already absent while
\* the socket is still restricted (RestoreSocket still to come).
C2_RestoreBeforeDelete ==
    ~ ( /\ cmd = "lock" /\ pc = "return" /\ unlocked
        /\ "RestoreSocket" \in Range(defers)
        /\ originalPerm # 0 /\ sockMode = 0
        /\ ~ledger.exists )

\* C3: after a process was ended while Locked with the socket restricted, the
\* start of the next command that finds a ledger record naming a socket
\* restores the socket to the permission stored in that record.
C3_RecoveryOnStart ==
    [][ ( /\ pc = "idle" /\ killed /\ pc' # "idle"
          /\ HasRecord(ledger) /\ Record(ledger).SocketPath # <<>> )
        => sockMode' = Record(ledger).SocketPerm ]_vars

\* the step is a Lock() that fails after RestrictSocket has succeeded
LedgerWriteFails ==
    /\ pc = "lockstate" /\ socketProtect
    /\ pc' = "return"
\* the process returns from a `lock` whose ledger write failed after the socket
\* was restricted, and the unwinding RestoreSocket returned no error
FailedLockUnwound ==
    /\ cmd = "lock" /\ Returning
    /\ \E c \in CallsOf("RestrictSocket") : c.err = Nil
    /\ \E c \in CallsOf("Lock") : c.err # Nil
    /\ \E c \in CallsOf("RestoreSocket") : c.err = Nil

\* C4: when the ledger write fails after the socket was restricted, `lock`
\* restores the socket to the captured permission before it returns, and the
\* socket mode and the ledger state are what they were before the attempt.
C4_FailedLockLeavesNoTrace ==
    /\ [][LedgerWriteFails => LedgerView(ledger') = LedgerView(ledger)]_vars
    /\ [](FailedLockUnwound => sockMode = startMode)

\* C5: every successful RestrictSocket of a lock episode is followed by a
\* RestoreSocket with the captured mode on every way the episode ends: a
\* return of `lock` (unlock, failed ledger write, no screen) and a signal that
\* ends the process while Locked.
C5_RestrictRestorePaired ==
    [][ ( /\ pc' = "idle"
          /\ \/ Returning
             \/ pc = "loop" /\ cmd = "lock"
          /\ \E c \in CallsOf("RestrictSocket") : c.err = Nil )
        => \E r \in CallsOf("RestoreSocket") : r.perm = originalPerm ]_vars

\* the socket descriptor is unset, empty, or has an empty first field
NoDescriptor(env) == ~env.set \/ env.val = <<>> \/ env.val[1] = ","
\* a `lock` starts with no credential, or with socket protection and no descriptor
LockWithoutPreconditions ==
    /\ pc = "idle" /\ cmd' = "lock"
    /\ ~passwd.exists \/ (socketProtect' /\ NoDescriptor(tmuxEnv'))

\* C6: with no credential, or with socket protection and an unset or malformed
\* descriptor, `lock` returns an error at once: the socket mode and the ledger
\* are unchanged and the lock render loop is not entered.
C6_PreconditionsFailFast ==
    /\ [][ LockWithoutPreconditions
           => ( /\ Returning' /\ retErr' # Nil
                /\ sockMode' = sockMode /\ ledger' = ledger ) ]_vars
    /\ []( (cmd = "lock" /\ pc \in {"restrict", "lockstate", "screen", "loop"})
           => (passwd.exists /\ (socketProtect => ~NoDescriptor(tmuxEnv))) )
C6_Witness ==
    /\ cmd = "lock" /\ Returning /\ socketProtect /\ passwd.exists
    /\ tmuxEnv = EnvOf(<<",", "1">>)
    /\ retErr = Wrap("getting tmux socket", ErrInvalidTmuxSocket)

\* the step handles an Enter for which verification returns false or an error
FailedSubmission ==
    /\ mode = ModeLock
    /\ ProcessEvent(Enter)
    /\ LET chk == CheckPassword(Bytes(inputBuffer), passwd)
       IN  chk.err # Nil \/ ~chk.valid

\* C7: a submission that verification rejects (false or error) leaves the
\* loop running, the ledger and the socket mode unchanged, the input buffer
\* empty and the snapshot of the attempt zeroed; so for every such submission.
C7_FailedSubmissionKeepsLocked ==
    [][ FailedSubmission
        => ( /\ pc' = "loop" /\ ~unlocked'
             /\ ledger' = ledger /\ sockMode' = sockMode
             /\ inputBuffer'.len = 0
             /\ Len(attempt') = inputBuffer.len
             /\ \A i \in DOMAIN attempt' : attempt'[i] = 0 ) ]_vars
C7_Witness ==
    /\ pc = "loop" /\ cmd = "lock" /\ mode = ModeLock
    /\ inputBuffer.len = 0 /\ Len(attempt) = 2 /\ attempt = <<0, 0>>
    /\ HasRecord(ledger) /\ sockMode = 0

\* C8: in an episode with socket protection on a socket of mode m, while
\* Locked the socket mode is 0 and the ledger record stores m; when `lock`
\* returns after the correct password, the mode is m again (RestoreSocket
\* returned no error) and the ledger record is absent (Unlock returned no error).
C8_RestrictRestoreRoundTrip ==
    /\ (cmd = "lock" /\ socketProtect /\ pc \in {"screen", "loop"})
         => ( /\ sockMode = 0
              /\ HasRecord(ledger)
              /\ Record(ledger).SocketPerm = startMode
              /\ Record(ledger).SocketPath = SockPath )
    /\ (cmd = "lock" /\ socketProtect /\ unlocked /\ Returning)
         => ( /\ (\E c \in CallsOf("RestoreSocket") : c.err = Nil)
                   => sockMode = startMode
              /\ (\E c \in CallsOf("Unlock") : c.err = Nil) => ~ledger.exists )
C8_Witness ==
    /\ cmd = "lock" /\ socketProtect /\ unlocked /\ Returning
    /\ startMode = 448 /\ sockMode = 448 /\ ~ledger.exists

\* the step is a RestrictSocket that returns an error
RestrictFails ==
    /\ pc = "restrict"
    /\ Len(calls') = Len(calls) + 1
    /\ calls'[Len(calls')].err # Nil
\* errors of reading the socket's permission (GetSocketPermissions)
ReadErrors == {ErrSocketNotFound, Wrap("stat socket", Err("EIO"))}

\* C9: when RestrictSocket fails, `lock` returns that error, writes no ledger
\* record and does not enter the render loop; when the failure is in reading
\* the permission, the socket mode is unchanged.
C9_RestrictFailureAborts ==
    [][ RestrictFails
        => ( /\ Returning'
             /\ retErr' = Wrap("restricting socket", calls'[Len(calls')].err)
             /\ ledger' = ledger
             /\ (calls'[Len(calls')].err \in ReadErrors => sockMode' = sockMode) )
      ]_vars
C9_Witness ==
    /\ cmd = "lock" /\ Returning
    /\ retErr = Wrap("restricting socket", Wrap("stat socket", Err("EIO")))
    /\ sockMode = 448 /\ ~ledger.exists

\* C10: when restoring the socket permission fails during the release of an
\* episode, the failure is reported to the user (it is in the error `lock`
\* returns, which main prints) and the unlock still completes: the ledger
\* record is deleted and IsLocked() is false.
C10_RestoreFailureReported ==
    ( /\ cmd = "lock" /\ Returning
      /\ \E c \in CallsOf("Unlock") : c.err = Nil
      /\ \E c \in CallsOf("RestoreSocket") : c.err # Nil )
    => ( /\ "restoring socket permissions" \in Range(retErr)
         /\ ~ledger.exists
         /\ ~IsLocked(ledger, "ok") )

\* C11: when the ledger write fails and the unwinding RestoreSocket fails too,
\* the one error `lock` returns names both the ledger write failure and the
\* failure to restore the socket.
C11_AggregatedError ==
    ( /\ cmd = "lock" /\ Returning
      /\ \E c \in CallsOf("Lock") : c.err # Nil
      /\ \E c \in CallsOf("RestoreSocket") : c.err # Nil )
    => ( /\ "creating lock state" \in Range(retErr)
         /\ "restoring socket permissions" \in Range(retErr) )

\* a `lock` starts without socket protection and with a credential configured
LockWithoutProtection ==
    /\ pc = "idle" /\ cmd' = "lock"
    /\ ~socketProtect' /\ PasswordExists(passwd)

\* C12: without socket protection and with a credential configured, `lock`
\* goes on to lock (the ledger write, then the render loop) whether TMUX is
\* set in the environment or not: the descriptor is no precondition then.
C12_DescriptorOnlyWithProtect ==
    [][LockWithoutProtection => (pc' = "lockstate" /\ retErr' = Nil)]_vars

\* the Lock and Unlock calls of the log, in order
RECURSIVE LockUnlockCalls(_)
LockUnlockCalls(log) ==
    IF log = <<>> THEN <<>>
    ELSE IF Head(log).fn \in {"Lock", "Unlock"}
         THEN <<Head(log)>> \o LockUnlockCalls(Tail(log))
    ELSE LockUnlockCalls(Tail(log))
\* Lock or Unlock was called, and every such call returned no error
OnlySuccessfulCalls ==
    /\ LockUnlockCalls(calls) # <<>>
    /\ \A i \in DOMAIN LockUnlockCalls(calls) : LockUnlockCalls(calls)[i].err = Nil
LastLockUnlock == LockUnlockCalls(calls)[Len(LockUnlockCalls(calls))]
\* the step is an Unlock, with the path of the state file resolved, while no
\* state file exists
UnlockOfNothing ==
    /\ ~ledger.exists
    /\ \E io \in {"ok", "remove"} : LedgerUnlock(io)

\* C13: after successful Lock and Unlock calls IsLocked() is true exactly when
\* the last of them was Lock; the one record is that of the last Lock, and one
\* Unlock leaves none however many Locks came before; an Unlock with no record
\* returns no error and changes nothing.
C13_LockUnlockSequence ==
    /\ [](OnlySuccessfulCalls =>
            /\ IsLocked(ledger, "ok") = (LastLockUnlock.fn = "Lock")
            /\ LastLockUnlock.fn = "Lock" =>
                 ( /\ HasRecord(ledger) /\ Record(ledger).Locked
                   /\ Record(ledger).SocketPerm = LastLockUnlock.perm )
            /\ LastLockUnlock.fn = "Unlock" => ledger = NoLedger)
    /\ [][UnlockOfNothing =>
            (calls'[Len(calls')].err = Nil /\ ledger' = ledger)]_vars
C13_Witness ==
    /\ Len(calls) = 3 /\ OnlySuccessfulCalls
    /\ calls[1].fn = "Lock" /\ calls[2].fn = "Lock" /\ calls[3].fn = "Unlock"
    /\ calls[1].perm # calls[2].perm
    /\ ledger = NoLedger

\* the step is an IsLocked() call; its result is the last entry of the log
IsLockedReturns == \E io \in {"ok", "path", "read"} : LedgerIsLocked(io)
\* the step is an IsLocked() call whose read of the state file fails
IsLockedCannotRead == \E io \in {"path", "read"} : LedgerIsLocked(io)

\* C14: IsLocked() returns true only if the state file exists, parses and has
\* its locked flag true; it returns false for a missing, unreadable or
\* unparseable file, and it returns a boolean and no error in every case.
C14_IsLockedTotal ==
    /\ [][IsLockedReturns =>
            /\ calls'[Len(calls')].ret \in BOOLEAN
            /\ calls'[Len(calls')].err = Nil
            /\ calls'[Len(calls')].ret =>
                 ( /\ ledger.exists /\ ledger.parses
                   /\ "locked" \in ledger.obj.present /\ ledger.obj.locked )
            /\ (~ledger.exists \/ ~ledger.parses) => ~calls'[Len(calls')].ret]_vars
    /\ [][IsLockedCannotRead => ~calls'[Len(calls')].ret]_vars
C14_Witness ==
    /\ calls # <<>>
    /\ calls[Len(calls)] = CallRet("IsLocked", FALSE)
    /\ ledger = TruncatedLedger

HashCalls == {i \in DOMAIN calls : calls[i].fn = "HashPassword"}
VerifyCalls == {i \in DOMAIN calls : calls[i].fn = "VerifyPassword"}

\* C15: VerifyPassword of a string HashPassword returned for password p
\* returns true with no error for p (the empty password too) and false with
\* no error for every other password.
C15_VerifyAfterHash ==
    \A i \in HashCalls, j \in VerifyCalls :
        calls[j].encoded = calls[i].ret
            => ( /\ calls[j].err = Nil
                 /\ calls[j].ret = (calls[j].password = calls[i].password) )
C15_Witness ==
    /\ Len(calls) = 3
    /\ calls[1].fn = "HashPassword" /\ calls[1].password = <<>>
    /\ calls[2] = CallVerify(<<>>, calls[1].ret, [valid |-> TRUE, err |-> Nil])
    /\ calls[3] = CallVerify(<<97>>, calls[1].ret, [valid |-> FALSE, err |-> Nil])

\* C16: two HashPassword calls on one password, each with the salt it drew
\* (two draws of rand.Read give two salts), return two different strings, and
\* each of the two verifies the password.
C16_FreshSaltDistinctHashes ==
    \A i \in HashCalls, j \in HashCalls :
        (calls[i].password = calls[j].password /\ calls[i].salt # calls[j].salt)
            => ( /\ calls[i].ret # calls[j].ret
                 /\ \A k \in VerifyCalls :
                        ( /\ calls[k].encoded \in {calls[i].ret, calls[j].ret}
                          /\ calls[k].password = calls[i].password )
                            => (calls[k].ret /\ calls[k].err = Nil) )
C16_Witness ==
    /\ Len(calls) = 3
    /\ calls[1].fn = "HashPassword" /\ calls[2].fn = "HashPassword"
    /\ calls[1].password = <<97>> /\ calls[2].password = <<97>>
    /\ calls[1].ret # calls[2].ret
    /\ calls[3] = CallVerify(<<97>>, calls[2].ret, [valid |-> TRUE, err |-> Nil])

\* C17: for a malformed encoded string (wrong number of fields, wrong
\* algorithm, bad base64 in the salt or in the hash, empty) VerifyPassword
\* returns false and the error ErrInvalidFormat.
C17_MalformedIsFormatError ==
    \A j \in VerifyCalls :
        calls[j].encoded \in Malformed
            => (~calls[j].ret /\ calls[j].err = ErrInvalidFormat)

\* C18: VerifyPassword hashes with the cost parameters stored in the encoded
\* string: an encoding of password p made under other cost parameters than
\* the constants verifies p.
C18_StoredCostParameters ==
    \A j \in VerifyCalls :
        calls[j].encoded = EncodedUnder(calls[j].password, Salt(1), OtherCost)
            => (calls[j].ret /\ calls[j].err = Nil)

Version19 == <<"v", "=", "1", "9">>
CostField == <<"m", "=", "1", "9", "4", "5", "6", ",", "t", "=", "2", ",", "p", "=", "1">>

\* C19: a string HashPassword returns splits on '$' into exactly the six parts
\* empty, argon2id, v=19, m=19456,t=2,p=1, salt and hash (no field holds a
\* '$'), and parseEncodedHash returns from it the salt and the hash bytes that
\* were encoded.
C19_EncodedFormat ==
    \A i \in HashCalls :
        LET parts == Split(calls[i].ret, "$")
            hash == IDKey(calls[i].password, calls[i].salt, argon2Time,
                          argon2Memory, argon2Threads, argon2KeyLen)
        IN  /\ Len(parts) = 6
            /\ parts[1] = <<>> /\ parts[2] = Argon2id /\ parts[3] = Version19
            /\ parts[4] = CostField
            /\ parts[5] = B64Encode(calls[i].salt) /\ parts[6] = B64Encode(hash)
            /\ \A k \in 1..6 : "$" \notin Range(parts[k])
            /\ parseEncodedHash(calls[i].ret)
                 = [salt |-> calls[i].salt, hash |-> hash, err |-> Nil]
C19_Witness ==
    /\ Len(calls) = 1
    /\ calls[1].fn = "HashPassword" /\ calls[1].password = <<97>>
    /\ Len(Split(calls[1].ret, "$")) = 6
    /\ parseEncodedHash(calls[1].ret).salt = Salt(2)

\* the four reserved two-byte markers: NUL, then SOH, STX, ETX or EOT
FourMarkers == {<<0, 1>>, <<0, 2>>, <<0, 3>>, <<0, 4>>}
\* the last two bytes of d are one of the four markers
EndsWithMarker(d) ==
    Len(d) >= 2 /\ SubSeq(d, Len(d) - 1, Len(d)) \in FourMarkers
DropLast(d, n) == SubSeq(d, 1, Len(d) - n)

\* C20: Backspace on a buffer that is not empty removes the last two bytes
\* when they are one of the four markers and the last byte otherwise, and
\* returns true; on an empty buffer it returns false and the buffer stays
\* empty.  IsArrowMarkerSuffix returns (true, 2) exactly when the last two bytes
\* are one of the four markers, and (false, 1) otherwise, also for fewer than
\* two bytes.
C20_BackspaceByUnit ==
    /\ [][InputBackspace =>
            LET d == Data(inputBuffer)
                ret == calls'[1].ret
            IN  IF d = <<>>
                THEN ~ret /\ Data(inputBuffer') = <<>>
                ELSE /\ ret
                     /\ Data(inputBuffer')
                          = DropLast(d, IF EndsWithMarker(d) THEN 2 ELSE 1)]_vars
    /\ [][InputIsArrowMarkerSuffix =>
            calls'[1].ret = IF EndsWithMarker(Data(inputBuffer))
                            THEN <<TRUE, 2>> ELSE <<FALSE, 1>>]_vars
C20_Witness ==
    /\ calls = <<CallBackspace(TRUE)>>
    /\ Data(inputBuffer) = <<97>>
    /\ inputBuffer.mem = <<97, 0, 4>>

\* every byte of a backing array or a slice is zero
AllZero(b) == \A i \in DOMAIN b : b[i] = 0
\* the log is n calls of AppendRune followed by n calls of Backspace
AppendsThenBackspaces(log) ==
    \E n \in 0..Len(log) :
        /\ Len(log) = 2 * n
        /\ \A i \in 1..n : log[i].fn = "AppendRune"
        /\ \A i \in (n + 1)..(2 * n) : log[i].fn = "Backspace"

\* C21: after N characters appended to an empty SecureBuffer with AppendRune
\* and then N calls of Backspace, the buffer is empty (length 0).
C21_AppendThenBackspaceEmpty ==
    AppendsThenBackspaces(calls) => inputBuffer.len = 0

\* C22: after Clear() or Destroy(), whatever appends and backspaces came
\* before, the length is 0 and every byte of the backing array is zero, the
\* bytes that Backspace removed earlier included.
C22_ClearZeroesStorage ==
    (calls # <<>> /\ calls[Len(calls)].fn \in {"Clear", "Destroy"})
        => (inputBuffer.len = 0 /\ AllZero(inputBuffer.mem))

\* the four markers
Markers == {ArrowUpMarker, ArrowDownMarker, ArrowLeftMarker, ArrowRightMarker}
\* the byte sequence holds a marker somewhere
ContainsMarker(b) == \E i \in 1..(Len(b) - 1) : SubSeq(b, i, i + 1) \in Markers
\* every key of the entry but the last is a character key
OnlyCharacters(keys) ==
    \A i \in 1..(Len(keys) - 1) : keys[i].t = "key" /\ keys[i].key = "KeyRune"

\* C24: no sequence of character keystrokes of a password entry yields bytes
\* that contain one of the four arrow markers.
C24_MarkersNotTypable ==
    \A c \in Range(calls) :
        (c.fn = "readPasswordWithArrows" /\ OnlyCharacters(c.keys))
            => ~ContainsMarker(c.ret)

\* C23: on every way a lock-mode session ends, the bytes that held typed input
\* are zero when they are released: the snapshot of every unlock attempt when
\* tryUnlock returns, and the array of the input buffer once close() has run.
C23_EntryBytesZeroed ==
    /\ AllZero(attempt)
    /\ (mode = ModeLock /\ pc = "return" /\ "close" \notin Range(defers))
         => AllZero(inputBuffer.mem)

\* the text of a descriptor before its first comma (all of it without a comma)
FirstField(d) ==
    IF \E i \in DOMAIN d : d[i] = ","
    THEN SubSeq(d, 1, (CHOOSE i \in DOMAIN d :
                          d[i] = "," /\ \A j \in 1..(i - 1) : d[j] # ",") - 1)
    ELSE d
\* the calls of GetTmuxSocketPath with a descriptor (TMUX set and not empty)
DescriptorCalls ==
    {c \in CallsOf("GetTmuxSocketPath") : c.env.set /\ c.env.val # <<>>}

\* C25: for a descriptor, GetTmuxSocketPath returns the text before the first
\* comma and no error when that text is not empty, and the empty path with
\* ErrInvalidTmuxSocket when it is empty.
C25_FirstFieldOfDescriptor ==
    \A c \in DescriptorCalls :
        IF FirstField(c.env.val) # <<>>
        THEN c.ret = FirstField(c.env.val) /\ c.err = Nil
        ELSE c.ret = <<>> /\ c.err = ErrInvalidTmuxSocket
C25_Witness ==
    /\ \E c \in DescriptorCalls :
          c.env.val = SpacedPath \o <<",", "1", ",", "0">> /\ c.ret = SpacedPath
    /\ \E c \in DescriptorCalls : c.env.val = <<"s", ",">> /\ c.ret = <<"s">>
    /\ \E c \in DescriptorCalls :
          c.env.val = <<",", "1">> /\ c.err = ErrInvalidTmuxSocket

\* C26: GetTmuxSocketPath returns the malformed-descriptor error when TMUX is
\* set but empty or its first field is empty, and the missing-descriptor error
\* only when TMUX is not in the environment at all.
C26_MalformedVersusMissing ==
    \A c \in CallsOf("GetTmuxSocketPath") :
        /\ (c.env.set /\ FirstField(c.env.val) = <<>>)
             => c.err = ErrInvalidTmuxSocket
        /\ c.err = ErrNoTmuxSocket => ~c.env.set

\* what was typed lets set-password store: a password that is not empty, a
\* confirmation equal to it, and "y" to the question when a credential exists
Accepted(answer, entered, confirm) ==
    /\ entered.err = Nil /\ entered.pw # <<>>
    /\ confirm.err = Nil /\ confirm.pw = entered.pw
    /\ passwd.exists => answer \in {"y", "yes"}

Encodings == {HashPassword(p, salt) : p \in Passwords, salt \in Salts}
\* the keys of the JSON object of the State struct
StateKeys == {"locked", "locked_at", "socket_path", "socket_perm"}

\* C29: the credential file holds nothing (a write cut short) or one string
\* that HashPassword returned and a newline, and the lock-state file holds
\* only the locked flag, the timestamp, the socket path and the permission.
C29_NoPlaintextStored ==
    /\ passwd.exists
         => (passwd.text = <<>> \/ \E e \in Encodings : passwd.text = e \o <<"\n">>)
    /\ ~passwd.exists => passwd.text = <<>>
    /\ ledger.obj.present \subseteq StateKeys
    /\ DOMAIN ledger.obj = StateKeys \cup {"present"}
    /\ ledger.obj.locked \in BOOLEAN
    /\ ledger.obj.locked_at \in Nat
    /\ ledger.obj.socket_path \in {<<>>, SockPath, NoSuchPath}
    /\ ledger.obj.socket_perm \in 0..511
C29_Witness ==
    /\ passwd \in {PasswdOf(e) : e \in Encodings}
    /\ ledger.exists /\ ledger.parses
    /\ cmd = "lock" /\ pc = "loop" /\ Data(inputBuffer) = <<0, 1>>

\* C30: in normal mode Up and Down do not exit and move the flame (Up raises
\* heatPower and heatSources unless at their maximum, Down lowers them unless
\* at their minimum) and every other key exits; in playground mode Escape
\* exits and every other key does not.
C30_ScreensaverKeys ==
    \A c \in CallsOf("handleKey") :
        /\ (c.mode = ModeNormal /\ c.ev.key = "KeyUp")
             => /\ c.ret # actionExit
                /\ c.after.heatPower >= c.flame.heatPower
                /\ c.after.heatSources >= c.flame.heatSources
                /\ c.flame.heatPower < maxHeat
                     => c.after.heatPower > c.flame.heatPower
                /\ c.flame.heatSources < c.w
                     => c.after.heatSources > c.flame.heatSources
        /\ (c.mode = ModeNormal /\ c.ev.key = "KeyDown")
             => /\ c.ret # actionExit
                /\ c.after.heatPower <= c.flame.heatPower
                /\ c.after.heatSources <= c.flame.heatSources
                /\ c.flame.heatPower > minHeat
                     => c.after.heatPower < c.flame.heatPower
                /\ c.flame.heatSources > minSources
                     => c.after.heatSources < c.flame.heatSources
        /\ (c.mode = ModeNormal /\ c.ev.key \notin {"KeyUp", "KeyDown"})
             => c.ret = actionExit
        /\ c.mode = ModePlayground
             => (c.ret = actionExit <=> c.ev.key = "KeyEscape")
C30_Witness ==
    \E c \in CallsOf("handleKey") :
        /\ c.mode = ModeNormal /\ c.ev.key = "KeyUp" /\ c.ret = actionNone
        /\ c.flame = [heatPower |-> defaultHeatPower, heatSources |-> 13]
        /\ c.after = [heatPower |-> 80, heatSources |-> 14]

\* the events handleEvent was called with, in the order of the calls
Handled == [i \in 1..Len(calls) |-> calls[i].ev]

\* C28: the events the loop has handled, then those in the channel, then the
\* one the goroutine holds, are exactly what PollEvent returned, in that
\* order; the channel never holds more than its capacity; and at the select
\* of processEvents with an empty channel the default case can be taken.
C28_QueueFifoNonBlocking ==
    /\ Handled \o events \o poller.ev = polled
    /\ Len(events) <= chanCap
    /\ (pc = "loop" /\ events = <<>>) => ENABLED QueueDefault
    /\ (pc = "loop" /\ events # <<>>) => ENABLED QueueReceive
C28_Witness ==
    /\ Len(events) = chanCap /\ poller.pc = "send"
    /\ pc = "loop" /\ mode = ModeLock
    /\ Len(calls) = 1 /\ Data(inputBuffer) = <<97>>

\* the fields of a line as git writes it: hash, author, relative time, and the
\* subject, which is the rest of the line
FieldsOf(line) == SplitN(line, "\t", 4)
WellFormed(line) == Len(FieldsOf(line)) = 4
MetaOf(line) ==
    <<"b", "y", " ">> \o FieldsOf(line)[2] \o <<" ">> \o FieldsOf(line)[3]

\* position of the first occurrence of sub in text from position i on, 0 when
\* there is none
FindFrom(text, sub, i) ==
    LET at == {k \in i..(Len(text) - Len(sub) + 1) :
                   SubSeq(text, k, k + Len(sub) - 1) = sub}
    IN  IF at = {} THEN 0 ELSE CHOOSE k \in at : \A j \in at : k <= j

\* the texts of subs occur in text one after the other
RECURSIVE InOrder(_, _, _)
InOrder(text, subs, i) ==
    IF subs = <<>> THEN TRUE
    ELSE LET k == FindFrom(text, Head(subs), i)
         IN  k # 0 /\ InOrder(text, Tail(subs), k + Len(Head(subs)))

SubjectsOf(lines) == [i \in DOMAIN lines |-> FieldsOf(lines[i])[4]]
MetasOf(lines) == [i \in DOMAIN lines |-> MetaOf(lines[i])]

\* C31: parseGitLogToTicker returns ok = false exactly when no line of the log
\* has four tab-separated fields; otherwise the message ticker holds the subject
\* and the meta ticker holds "by <author> <relative time>" of every such line,
\* in the order of the log.
C31_TickerOfCommitLines ==
    \A i \in DOMAIN calls :
        calls[i].fn = "parseGitLogToTicker" =>
            LET commits == SelectSeq(calls[i].lines, WellFormed)
                r == calls[i].ret
            IN  /\ r.ok <=> commits # <<>>
                /\ r.ok => /\ InOrder(r.msg, SubjectsOf(commits), 1)
                           /\ InOrder(r.meta, MetasOf(commits), 1)

\* the bytes the lock screen's buffer holds after the events keys, none of which
\* is Enter
RECURSIVE LockEntry(_, _)
LockEntry(sb, keys) ==
    IF keys = <<>> THEN Data(sb)
    ELSE LockEntry(IF Head(keys).t = "key"
                   THEN handleKeyLock(Head(keys), sb, <<>>, NoPasswd).sb
                   ELSE sb,
                   Tail(keys))

\* C32: for every sequence of character keys, arrow keys and Backspace, the
\* bytes that the set-password entry returns on Enter are the bytes that the
\* lock screen's buffer holds after the same keys.
C32_EntriesAgree ==
    \A i \in DOMAIN calls :
        LET c == calls[i]
        IN  (/\ c.fn = "readPasswordWithArrows"
             /\ c.io = "ok"
             /\ c.keys[Len(c.keys)].key = "KeyEnter")
            => c.ret = LockEntry(NewSecureBuffer, SubSeq(c.keys, 1, Len(c.keys) - 1))

\* the `lock` command has run its deferred calls and RestoreSocket returned no error
Released ==
    /\ cmd = "lock" /\ pc = "return" /\ defers = <<>>
    /\ \E i \in DOMAIN calls :
           calls[i].fn = "RestoreSocket" /\ calls[i].err = Nil

\* C33: a ledger record that names a socket stores the mode the socket had
\* before it was first restricted, also when `lock` starts while the socket is
\* still restricted from an episode that was ended, and after the release of the
\* last episode the socket has that mode again.
C33_StoredPermissionIsOriginal ==
    /\ (HasRecord(ledger) /\ Record(ledger).SocketPath # <<>>)
           => Record(ledger).SocketPerm \in InitModes
    /\ Released => sockMode \in InitModes

\* C34: whenever the render loop runs in lock mode the ledger reports the
\* session as locked, whichever command started the loop.
C34_LockLoopIsLedgered ==
    (pc = "loop" /\ mode = ModeLock) => IsLocked(ledger, "ok")

\* the credential file holds a well-formed encoding
CredentialParses(file) ==
    /\ LoadPasswordHash(file).err = Nil
    /\ parseEncodedHash(LoadPasswordHash(file).hash).err = Nil

\* C35: whenever `lock` has entered lock mode the content of the credential file
\* parses as a well-formed encoding, so that the episode is never entered in a
\* state where every submission fails with an error.
C35_LockedHasUsableCredential ==
    (cmd = "lock" /\ mode = ModeLock /\ pc = "loop") => CredentialParses(passwd)

\* the render loop has exited and close() has finalized the screen
Closed == pc = "return" /\ defers = <<>>

\* pollEvents waits at s.events <- ev for room in the channel
SendWaits == poller.pc = "send" /\ Len(events) >= chanCap

\* C36: after the render loop has exited and close() has finalized the screen,
\* pollEvents is not left waiting to send an event into the full channel, which
\* nothing drains any more.
C36_PollerNotLeftSending ==
    Closed => ~SendWaits

\* C37: after any sequence of OnKeyPress, OnFrame and Reset calls, for every
\* cooldown preset, CurrentBurst is between 0 and MaxBurstHeat and
\* EffectiveHeatPower() between BaseHeatPower and BaseHeatPower + MaxBurstHeat.
C37_BurstWithinBounds ==
    visualState # NoVisual =>
        /\ visualState[1].CurrentBurst >= 0
        /\ visualState[1].CurrentBurst <= MaxBurstHeat
        /\ EffectiveHeatPower(visualState[1]) >= BaseHeatPower
        /\ EffectiveHeatPower(visualState[1]) <= BaseHeatPower + MaxBurstHeat

\* the burst is at its cap and cooling down has started
C37_Witness ==
    /\ visualState # NoVisual
    /\ visualState[1].CurrentBurst = MaxBurstHeat - visualState[1].CooldownRate
    /\ visualState[1].FramesSinceInput = visualState[1].CooldownDelay + 1
    /\ EffectiveHeatPower(visualState[1]) = 86

\* a step that is a frame, and a step that is a key press
FrameStep ==
    /\ visualState # NoVisual /\ visualState' # NoVisual
    /\ visualState'[1].FramesSinceInput = visualState[1].FramesSinceInput + 1
KeyStep == VisualKeyPress
BurstIsZero == visualState # NoVisual => visualState[1].CurrentBurst = 0

\* C38: on a frame CurrentBurst does not decrease until more than CooldownDelay
\* frames have passed since the last key press, each key press sets the frame
\* counter back to 0, the rate and delay are those of a preset (the default ones
\* for an unknown name), and when no further key is pressed CurrentBurst
\* eventually is 0 and stays 0.
C38_CooldownAfterDelay ==
    /\ [][(FrameStep /\ visualState'[1].FramesSinceInput <= visualState[1].CooldownDelay)
            => visualState'[1].CurrentBurst = visualState[1].CurrentBurst]_vars
    /\ [][KeyStep => visualState'[1].FramesSinceInput = 0]_vars
    /\ [](visualState # NoVisual =>
            \/ \E p \in DOMAIN CooldownPresets :
                  /\ visualState[1].CooldownRate = CooldownPresets[p].Rate
                  /\ visualState[1].CooldownDelay = CooldownPresets[p].Delay)
    /\ (<>[][~KeyStep]_vars => <>[]BurstIsZero)

\* the slow preset three frames into its cooldown from the cap
C38_Witness ==
    /\ visualState # NoVisual
    /\ visualState[1].CooldownRate = 1
    /\ visualState[1].FramesSinceInput = visualState[1].CooldownDelay + 3
    /\ visualState[1].CurrentBurst = MaxBurstHeat - 3

\* the step is a poll of the watcher; what it observed; whether it triggered
PollStep == idle.pc = "loop" /\ Len(calls') > Len(calls)
Observed == calls'[Len(calls) + 1]
Triggered ==
    Len(calls') = Len(calls) + 2 /\ calls'[Len(calls')].fn = "triggerScreensaver"

\* C39: a poll of the idle watcher triggers the screensaver exactly when it
\* observes an idle time of at least the timeout while the watcher is not
\* waiting for activity; between two triggers some poll has observed an idle
\* time below the timeout; a poll that fails to read the idle time changes
\* neither the waiting flag nor triggers anything.
C39_IdleTriggers ==
    /\ [][PollStep => (Triggered <=> /\ Observed.err = Nil
                                     /\ Observed.ret >= idle.timeout
                                     /\ ~idle.waiting)]_vars
    /\ [](idle.pc = "loop" =>
            \A i, j \in DOMAIN calls :
                (/\ i < j
                 /\ calls[i].fn = "triggerScreensaver"
                 /\ calls[j].fn = "triggerScreensaver")
                => \E k \in (i + 1)..(j - 1) :
                       /\ calls[k].fn = "getClientIdleTime"
                       /\ calls[k].err = Nil
                       /\ calls[k].ret < idle.timeout)
    /\ [][(PollStep /\ Observed.err # Nil)
            => (idle'.waiting = idle.waiting /\ ~Triggered)]_vars

\* the watcher has triggered, seen activity, and triggered again
C39_Witness ==
    /\ idle.pc = "loop"
    /\ Len(SelectSeq(calls, LAMBDA c : c.fn = "triggerScreensaver")) = 2
    /\ \E k \in DOMAIN calls : calls[k].fn = "getClientIdleTime" /\ calls[k].err # Nil

====
